---- MODULE Spec2Model ----
(***************************************************************************)
(* The commit-message parser of scripts/supercommit (parse.js):            *)
(* parseCommitMessage reads the first line of a commit message, extracts   *)
(* the issue key and the STATUS/LOG/COMMENT/PHASE/DATE/CAT/READY tokens    *)
(* and returns a record, or throws; and the functions that act on that    *)
(* record: main (index.js), updateJiraStatus and its retrying jiraFetch    *)
(* (updateJira.js), logTempo and logTempoWorklog (logTempo.js).            *)
(*                                                                         *)
(* A JavaScript string is a sequence of one-character strings.  U+FEFF and *)
(* the zero-width characters U+200B..U+200D are the symbols BOM and ZW.    *)
(* An optional value (null or a value) is a sequence of length 0 or 1.     *)
(* A JavaScript number is modelled as the binary64 value it is: see Dbl.   *)
(***************************************************************************)
EXTENDS Integers, Sequences, FiniteSets, TLC

VARIABLES
    input,      \* how the message was composed (the caller's side, not read by the parser)
    message,    \* the argument of parseCommitMessage
    pc,         \* the parser's position in its pipeline
    firstLine,  \* const firstLine
    issue,      \* const issue (and issueKey, its alias)
    tok,        \* tidy(getToken(name)) for each name
    phase,      \* let phase
    ready,      \* const ready
    logHours,   \* let logHours
    logDate,    \* let logDate
    err,        \* the error thrown, if any
    call,       \* the arguments and environment of the run of a function that does I/O
    stage,      \* the position of that run in its code
    attempt,    \* let attempt, the counter of the retry loop being run
    sent,       \* the requests sent so far, each with the response it received
    parsed,     \* const parsed (main)
    trail,      \* the steps of main entered so far, in order
    fetched,    \* const res: what the fetch helper last called returned
    current,    \* const current (main): the issue as read before the transition
    match,      \* const match (updateJiraStatus), const best (main)
    result,     \* how the run ended: what it returned or threw
    output,     \* the values written for the step output create_pr
    exitCode    \* process.exitCode

parserVars == <<input, message, pc, firstLine, issue, tok, phase, ready, logHours, logDate, err>>
ioVars == <<call, stage, attempt, sent, parsed, trail, fetched, current, match, result, output, exitCode>>
vars == <<input, message, pc, firstLine, issue, tok, phase, ready, logHours, logDate, err,
          call, stage, attempt, sent, parsed, trail, fetched, current, match, result, output, exitCode>>

Null == <<>>
Some(x) == <<x>>

\* no function that does I/O is running: the parser is called on its own
IoIdle ==
    /\ call = [fn |-> "parseCommitMessage"]
    /\ stage = "idle"
    /\ attempt = 0
    /\ sent = <<>>
    /\ parsed = Null
    /\ trail = <<>>
    /\ fetched = Null
    /\ current = Null
    /\ match = Null
    /\ result = [kind |-> "none"]
    /\ output = <<>>
    /\ exitCode = 0

----------------------------------------------------------------------------
(* Characters and character classes of the regular expressions.            *)

BOM == "BOM"
ZW == "ZW"

Digits == {"0", "1", "2", "3", "4", "5", "6", "7", "8", "9"}
Upper == {"A", "B", "C", "D", "E", "F", "G", "H", "I", "J", "K", "L", "M",
          "N", "O", "P", "Q", "R", "S", "T", "U", "V", "W", "X", "Y", "Z"}
Lower == {"a", "b", "c", "d", "e", "f", "g", "h", "i", "j", "k", "l", "m",
          "n", "o", "p", "q", "r", "s", "t", "u", "v", "w", "x", "y", "z"}

\* \s of a JavaScript regular expression (and what trim() removes), on the model's alphabet
IsWs(c) == c \in {" ", "\t", "\r", "\n", BOM}
\* what "." does not match
IsLineTerm(c) == c \in {"\n", "\r"}
IsDigit(c) == c \in Digits
\* \w
IsWord(c) == c \in Upper \cup Lower \cup Digits \cup {"_"}

DigitVal(c) ==
    CASE c = "0" -> 0 [] c = "1" -> 1 [] c = "2" -> 2 [] c = "3" -> 3 [] c = "4" -> 4
      [] c = "5" -> 5 [] c = "6" -> 6 [] c = "7" -> 7 [] c = "8" -> 8 [] c = "9" -> 9

\* String.prototype.toLowerCase, one character
ToLower(c) ==
    CASE c = "A" -> "a" [] c = "B" -> "b" [] c = "C" -> "c" [] c = "D" -> "d" [] c = "E" -> "e"
      [] c = "F" -> "f" [] c = "G" -> "g" [] c = "H" -> "h" [] c = "I" -> "i" [] c = "J" -> "j"
      [] c = "K" -> "k" [] c = "L" -> "l" [] c = "M" -> "m" [] c = "N" -> "n" [] c = "O" -> "o"
      [] c = "P" -> "p" [] c = "Q" -> "q" [] c = "R" -> "r" [] c = "S" -> "s" [] c = "T" -> "t"
      [] c = "U" -> "u" [] c = "V" -> "v" [] c = "W" -> "w" [] c = "X" -> "x" [] c = "Y" -> "y"
      [] c = "Z" -> "z"
      [] OTHER -> c

\* the number of whitespace characters of s from index p on
RECURSIVE WsRun(_, _)
WsRun(s, p) == IF p <= Len(s) /\ IsWs(s[p]) THEN 1 + WsRun(s, p + 1) ELSE 0

\* the number of characters of s from index p on that are in the class
RECURSIVE ClassRun(_, _, _)
ClassRun(s, p, class) ==
    IF p <= Len(s) /\ s[p] \in class THEN 1 + ClassRun(s, p + 1, class) ELSE 0

\* String.prototype.trimEnd / trimStart / trim
RECURSIVE TrimEnd(_)
TrimEnd(s) ==
    IF s # <<>> /\ IsWs(s[Len(s)]) THEN TrimEnd(SubSeq(s, 1, Len(s) - 1)) ELSE s

TrimStart(s) == SubSeq(s, 1 + WsRun(s, 1), Len(s))

Trim(s) == TrimEnd(TrimStart(s))

\* the literal lit is at index p of s
StartsAt(s, p, lit) ==
    /\ p >= 1
    /\ p + Len(lit) - 1 <= Len(s)
    /\ \A k \in 1..Len(lit) : s[p + k - 1] = lit[k]

\* String.prototype.indexOf for a single character; 0 when absent (indexes from 1)
IndexOf(s, c) ==
    IF \E k \in 1..Len(s) : s[k] = c
    THEN CHOOSE k \in 1..Len(s) : s[k] = c /\ \A j \in 1..(k - 1) : s[j] # c
    ELSE 0

Min(S) == CHOOSE x \in S : \A y \in S : x <= y
Max(S) == CHOOSE x \in S : \A y \in S : x >= y

----------------------------------------------------------------------------
(* TOKEN_NAMES and the token regular expression shared by onlyOne and      *)
(* getToken.                                                               *)

TOKEN_NAMES == <<"STATUS", "LOG", "COMMENT", "PHASE", "DATE", "CAT", "READY">>

Names == {TOKEN_NAMES[k] : k \in 1..Len(TOKEN_NAMES)}

NameChars(name) ==
    CASE name = "STATUS"  -> <<"S", "T", "A", "T", "U", "S">>
      [] name = "LOG"     -> <<"L", "O", "G">>
      [] name = "COMMENT" -> <<"C", "O", "M", "M", "E", "N", "T">>
      [] name = "PHASE"   -> <<"P", "H", "A", "S", "E">>
      [] name = "DATE"    -> <<"D", "A", "T", "E">>
      [] name = "CAT"     -> <<"C", "A", "T">>
      [] name = "READY"   -> <<"R", "E", "A", "D", "Y">>

\* a boundary at any upper-case word and colon, reserved or not: \s[A-Z]+:
TOKEN_ALT_anyWord(s, p) ==
    LET n == ClassRun(s, p, Upper) IN n >= 1 /\ p + n <= Len(s) /\ s[p + n] = ":"

\* (?:STATUS|LOG|...): matches at index p
TOKEN_ALT(s, p) == \E n \in Names : StartsAt(s, p, NameChars(n) \o <<":">>)

\* the lookahead (?=(?:\s(?:TOKEN_ALT):|$)) at index t
Lookahead(s, t) ==
    \/ t <= Len(s) /\ IsWs(s[t]) /\ TOKEN_ALT(s, t + 1)
    \/ t = Len(s) + 1

NoMatch == [ok |-> FALSE, from |-> 0, to |-> 0, end |-> 0]

\* One attempt of (?:^|\s)NAME:\s*([^\s].*?)\s*(?=...) at index i: the capture
\* group is s[from..to], end is the index after the match.
\*   (?:^|\s)  i = 1 with NAME: there, or a whitespace at i
\*   \s*       greedy; [^\s] then needs the first character that is no whitespace
\*   .*?       lazy: the shortest extension, over characters "." matches
\*   \s*       greedy again: the longest run after which the lookahead holds
TokenMatchAt(s, name, i) ==
    LET lit == NameChars(name) \o <<":">>
        p == IF i = 1 /\ StartsAt(s, 1, lit) THEN 1
             ELSE IF i <= Len(s) /\ IsWs(s[i]) /\ StartsAt(s, i + 1, lit) THEN i + 1
             ELSE 0
    IN  IF p = 0 THEN NoMatch
        ELSE
        LET c == p + Len(lit)
            q == c + WsRun(s, c)
        IN  IF q > Len(s) THEN NoMatch
            ELSE
            LET stops == {e \in (q + 1)..(Len(s) + 1) :
                            /\ \A k \in (q + 1)..(e - 1) : ~IsLineTerm(s[k])
                            /\ \E j \in 0..WsRun(s, e) : Lookahead(s, e + j)}
            IN  IF stops = {} THEN NoMatch
                ELSE
                LET e == Min(stops)
                    j == Max({k \in 0..WsRun(s, e) : Lookahead(s, e + k)})
                IN  [ok |-> TRUE, from |-> q, to |-> e - 1, end |-> e + j]

\* RegExp exec from index `from` on: the leftmost index at which an attempt succeeds
TokenExec(s, name, from) ==
    LET starts == {i \in from..Len(s) : TokenMatchAt(s, name, i).ok}
    IN  IF starts = {} THEN NoMatch ELSE TokenMatchAt(s, name, Min(starts))

\* firstLine.match(re) with the g flag: the number of successive matches
RECURSIVE CountHits(_, _, _)
CountHits(s, name, from) ==
    LET m == TokenExec(s, name, from)
    IN  IF ~m.ok THEN 0 ELSE 1 + CountHits(s, name, m.end)

\* a count compared with 2 instead of 1
onlyOne_moreThanTwo(s, name) == CountHits(s, name, 1) > 2

\* onlyOne(name) throws
onlyOne(s, name) == CountHits(s, name, 1) > 1

\* a capture that runs to the end of the line: NAME:\s*(.+)$
getToken_toEnd(s, name) ==
    LET m == TokenExec(s, name, 1)
    IN  IF m.ok THEN Some(Trim(SubSeq(s, m.from, Len(s)))) ELSE Null

\* getToken(name): m ? m[1].trim() : null
getToken(s, name) ==
    LET m == TokenExec(s, name, 1)
    IN  IF m.ok THEN Some(Trim(SubSeq(s, m.from, m.to))) ELSE Null

\* a tidy that hands a blank string on
tidy_blank(v) == IF v # Null THEN Some(<<" ">>) ELSE Null

\* tidy(v): the trimmed string when it is non-empty, else null
tidy(v) == IF v # Null /\ Trim(v[1]) # <<>> THEN Some(Trim(v[1])) ELSE Null

----------------------------------------------------------------------------
(* sanitizeFirstLine and the issue key.                                    *)

\* the whole message instead of its first line
RawFirst_allLines(s) == s

\* the lines joined by spaces instead of the first line
RawFirst_joined(s) == [k \in 1..Len(s) |-> IF s[k] \in {"\r", "\n"} THEN " " ELSE s[k]]

\* String(message).split(/\r?\n/)[0]
RawFirst(s) ==
    LET k == IndexOf(s, "\n")
    IN  IF k = 0 THEN s
        ELSE IF k > 1 /\ s[k - 1] = "\r" THEN SubSeq(s, 1, k - 2)
        ELSE SubSeq(s, 1, k - 1)

\* no zero-width character removed
ZwRun_none(s, p) == 0

RECURSIVE ZwRun(_, _)
ZwRun(s, p) == IF p <= Len(s) /\ s[p] = ZW THEN 1 + ZwRun(s, p + 1) ELSE 0

sanitizeFirstLine(s) ==
    LET r0 == RawFirst(s)
        r1 == IF r0 # <<>> /\ r0[1] = BOM THEN Tail(r0) ELSE r0   \* .replace(/^\uFEFF/, "")
        r2 == SubSeq(r1, 1 + ZwRun(r1, 1), Len(r1))               \* .replace(/^[\u200B\u200C\u200D]+/, "")
        r3 == TrimStart(r2)                                       \* .replace(/^\s+/, "")
    IN  TrimEnd(r3)

\* the pattern without its \b
KeyMatch_noBoundary(s) ==
    IF s = <<>> \/ s[1] \notin Upper THEN 0
    ELSE
    LET n == ClassRun(s, 2, Upper \cup Digits)
        h == 2 + n
    IN  IF n < 1 \/ n > 9 \/ h > Len(s) \/ s[h] # "-" THEN 0
        ELSE IF ClassRun(s, h + 1, Digits) < 1 THEN 0
        ELSE h + ClassRun(s, h + 1, Digits)

\* the pattern with an optional hyphen: /^([A-Z][A-Z0-9]{1,9}-?\d+)\b/
KeyMatch_optionalHyphen(s) ==
    IF s = <<>> \/ s[1] \notin Upper THEN 0
    ELSE
    LET n == ClassRun(s, 2, Upper \cup Digits)
        h == 2 + n
        d == ClassRun(s, h + 1, Digits)
    IN  IF n >= 1 /\ n <= 9 /\ h <= Len(s) /\ s[h] = "-" /\ d >= 1
           /\ (h + d = Len(s) \/ ~IsWord(s[h + d + 1]))
        THEN h + d
        ELSE IF n >= 2 /\ n <= 10 /\ s[1 + n] \in Digits
                /\ (1 + n = Len(s) \/ ~IsWord(s[2 + n]))
        THEN 1 + n
        ELSE 0

\* firstLine.match(/^([A-Z][A-Z0-9]{1,9}-\d+)\b/): the length of group 1, 0 for no match
KeyMatch(s) ==
    IF s = <<>> \/ s[1] \notin Upper THEN 0
    ELSE
    LET n == ClassRun(s, 2, Upper \cup Digits)
        h == 2 + n
    IN  IF n < 1 \/ n > 9 \/ h > Len(s) \/ s[h] # "-" THEN 0
        ELSE
        LET d == ClassRun(s, h + 1, Digits)
            z == h + d
        IN  IF d < 1 THEN 0
            ELSE IF z < Len(s) /\ IsWord(s[z + 1]) THEN 0    \* \b after a digit
            ELSE z

----------------------------------------------------------------------------
(* JavaScript numbers.  A non-negative binary64 value is the pair of its   *)
(* integer part and the bits of its fraction (no trailing zero): exactly   *)
(* the value the double holds.  Every operation rounds to 53 significant   *)
(* bits, to nearest, ties to even, as the code's arithmetic does.          *)

RECURSIVE BitLen(_)
BitLen(n) == IF n = 0 THEN 0 ELSE 1 + BitLen(n \div 2)

\* the first n bits of the binary expansion of r/den (0 <= r < den), and what is
\* left; long division, the n steps split in halves
RECURSIVE Expand(_, _, _)
Expand(r, den, n) ==
    IF n = 0 THEN [bits |-> <<>>, rem |-> r]
    ELSE IF n = 1
    THEN LET b == IF 2 * r >= den THEN 1 ELSE 0
         IN  [bits |-> <<b>>, rem |-> 2 * r - b * den]
    ELSE LET x == Expand(r, den, n \div 2)
             y == Expand(x.rem, den, n - (n \div 2))
         IN  [bits |-> x.bits \o y.bits, rem |-> y.rem]

\* the number of zero bits before the first one bit of r/den (0 < r < den)
RECURSIVE LeadingZeros(_, _)
LeadingZeros(r, den) == IF 2 * r >= den THEN 0 ELSE 1 + LeadingZeros(2 * r, den)

\* fb without its trailing zeros
StripZeros(fb) == SubSeq(fb, 1, Max({0} \cup {k \in 1..Len(fb) : fb[k] = 1}))

Dbl(ip, fb) == [ip |-> ip, fb |-> StripZeros(fb)]

\* one unit in the last place of fb more: the carry runs up to the last zero bit
NextUp(ip, fb) ==
    LET z == Max({0} \cup {k \in 1..Len(fb) : fb[k] = 0})
    IN  IF z = 0 THEN [ip |-> ip + 1, fb |-> [k \in 1..Len(fb) |-> 0]]
        ELSE [ip |-> ip, fb |-> [k \in 1..Len(fb) |-> IF k < z THEN fb[k] ELSE IF k = z THEN 1 ELSE 0]]

\* ip.fb followed by a guard bit and a sticky flag, rounded to nearest, ties to even
RoundBits(ip, fb, guard, sticky) ==
    LET lsb == IF fb = <<>> THEN ip % 2 ELSE fb[Len(fb)]
    IN  IF guard = 1 /\ (sticky \/ lsb = 1)
        THEN LET x == NextUp(ip, fb) IN Dbl(x.ip, x.fb)
        ELSE Dbl(ip, fb)

\* the number of fraction bits a double with integer part ip keeps, when its
\* fraction starts with lz zero bits
FracWidth(ip, lz) == IF ip > 0 THEN 53 - BitLen(ip) ELSE lz + 53

\* the double nearest to ip + r/den (0 <= r < den)
RoundRational(ip, r, den) ==
    IF r = 0 THEN Dbl(ip, <<>>)
    ELSE LET f == FracWidth(ip, LeadingZeros(r, den))
             x == Expand(r, den, f + 1)
         IN  RoundBits(ip, SubSeq(x.bits, 1, f), x.bits[f + 1], x.rem # 0)

\* n / d for two integers, as the operator / computes it
DblDiv(n, d) == RoundRational(n \div d, n % d, d)

\* h + x for an integer h and a double x
DblAdd(h, x) ==
    LET ip == h + x.ip
        f == FracWidth(ip, 0)
    IN  IF ip = 0 \/ Len(x.fb) <= f THEN Dbl(ip, x.fb)
        ELSE RoundBits(ip, SubSeq(x.fb, 1, f), x.fb[f + 1],
                       \E k \in (f + 2)..Len(x.fb) : x.fb[k] = 1)

\* x >= 0
DblPositive_orZero(x) == x.ip >= 0

\* x > 0
DblPositive(x) == x.ip > 0 \/ x.fb # <<>>

RECURSIVE Pow10(_)
Pow10(k) == IF k = 0 THEN 1 ELSE 10 * Pow10(k - 1)

\* parseInt(ds, 10) of a string of digits
RECURSIVE ParseInt(_)
ParseInt(ds) ==
    IF ds = <<>> THEN 0
    ELSE 10 * ParseInt(SubSeq(ds, 1, Len(ds) - 1)) + DigitVal(ds[Len(ds)])

\* parseFloat of <digits> or <digits>.<digits>: the double nearest to the decimal
ParseFloat(ds) ==
    LET dot == IndexOf(ds, ".")
    IN  IF dot = 0 THEN Dbl(ParseInt(ds), <<>>)
        ELSE LET fr == SubSeq(ds, dot + 1, Len(ds))
             IN  RoundRational(ParseInt(SubSeq(ds, 1, dot - 1)), ParseInt(fr), Pow10(Len(fr)))

----------------------------------------------------------------------------
(* The LOG forms.                                                          *)

AllDigits(s) == s # <<>> /\ \A k \in 1..Len(s) : IsDigit(s[k])

\* timePart.match(/^(\d+(?:\.\d+)?)h$/i): group 1, or Null
MatchDecimalHours(t) ==
    IF t = <<>> \/ ToLower(t[Len(t)]) # "h" THEN Null
    ELSE LET num == SubSeq(t, 1, Len(t) - 1)
             dot == IndexOf(num, ".")
         IN  IF dot = 0
             THEN IF AllDigits(num) THEN Some(num) ELSE Null
             ELSE IF AllDigits(SubSeq(num, 1, dot - 1)) /\ AllDigits(SubSeq(num, dot + 1, Len(num)))
                  THEN Some(num) ELSE Null

\* timePart.match(/^(\d+):(\d{1,2})$/): groups 1 and 2, or Null
MatchHourMinute(t) ==
    LET col == IndexOf(t, ":")
    IN  IF col = 0 THEN Null
        ELSE LET h == SubSeq(t, 1, col - 1)
                 m == SubSeq(t, col + 1, Len(t))
             IN  IF AllDigits(h) /\ AllDigits(m) /\ Len(m) <= 2
                 THEN Some(<<h, m>>) ELSE Null

\* timePart.match(/^(\d+)m$/i): group 1, or Null
MatchMinutes(t) ==
    IF t = <<>> \/ ToLower(t[Len(t)]) # "m" THEN Null
    ELSE LET num == SubSeq(t, 1, Len(t) - 1)
         IN  IF AllDigits(num) THEN Some(num) ELSE Null

\* the split of rawLog at the first "@": timePart, and datePart (trimmed) or Null
TimePart(rawLog) ==
    LET at == IndexOf(rawLog, "@")
    IN  IF at = 0 THEN rawLog ELSE SubSeq(rawLog, 1, at - 1)

DatePart(rawLog) ==
    LET at == IndexOf(rawLog, "@")
    IN  IF at = 0 THEN Null ELSE Some(Trim(SubSeq(rawLog, at + 1, Len(rawLog))))

----------------------------------------------------------------------------
(* Dates.                                                                  *)

\* /^\d{4}-\d{2}-\d{2}$/.test(s)
DatePattern(s) ==
    /\ Len(s) = 10
    /\ s[5] = "-" /\ s[8] = "-"
    /\ \A k \in {1, 2, 3, 4, 6, 7, 9, 10} : IsDigit(s[k])

IsLeap(y) == (y % 4 = 0 /\ y % 100 # 0) \/ y % 400 = 0

\* the days of month m (0 = January) of year y
DaysInMonth(y, m) ==
    IF m = 1 THEN (IF IsLeap(y) THEN 29 ELSE 28)
    ELSE IF m \in {3, 5, 8, 10} THEN 30 ELSE 31

\* the calendar date that day d of month m (0..11) of year y is, d >= 0
RECURSIVE CivilFrom(_, _, _)
CivilFrom(y, m, d) ==
    IF d = 0
    THEN (IF m = 0 THEN [y |-> y - 1, m |-> 11, d |-> 31]
          ELSE [y |-> y, m |-> m - 1, d |-> DaysInMonth(y, m - 1)])
    ELSE IF d > DaysInMonth(y, m)
    THEN (IF m = 11 THEN CivilFrom(y + 1, 0, d - DaysInMonth(y, m))
          ELSE CivilFrom(y, m + 1, d - DaysInMonth(y, m)))
    ELSE [y |-> y, m |-> m, d |-> d]

\* new Date(Date.UTC(y, month, d)) as year, month and day: Date.UTC reads a
\* year of 0..99 as 1900 + year, and carries a month or day out of range over
DateUTC(y, month, d) ==
    LET yy == IF y <= 99 THEN 1900 + y ELSE y
    IN  IF month = -1 THEN CivilFrom(yy - 1, 11, d)
        ELSE CivilFrom(yy + (month \div 12), month % 12, d)

isValidISODate(s) ==
    IF ~DatePattern(s) THEN FALSE
    ELSE LET y == ParseInt(SubSeq(s, 1, 4))
             mo == ParseInt(SubSeq(s, 6, 7))
             d == ParseInt(SubSeq(s, 9, 10))
             dt == DateUTC(y, mo - 1, d)
         IN  dt.y = y /\ dt.m = mo - 1 /\ dt.d = d

----------------------------------------------------------------------------
(* parseReady.                                                             *)

Lowered(s) == [k \in 1..Len(s) |-> ToLower(s[k])]

\* the comparison without toLowerCase()
parseReady_caseSensitive(val) ==
    IF val = Null THEN Null
    ELSE LET s == Trim(val[1])
         IN  IF s \in {<<"y">>, <<"y", "e", "s">>, <<"t", "r", "u", "e">>, <<"1">>} THEN Some(TRUE)
             ELSE IF s \in {<<"n">>, <<"n", "o">>, <<"f", "a", "l", "s", "e">>, <<"0">>} THEN Some(FALSE)
             ELSE Null

parseReady(val) ==
    IF val = Null THEN Null
    ELSE LET s == Lowered(Trim(val[1]))
         IN  IF s \in {<<"y">>, <<"y", "e", "s">>, <<"t", "r", "u", "e">>, <<"1">>} THEN Some(TRUE)
             ELSE IF s \in {<<"n">>, <<"n", "o">>, <<"f", "a", "l", "s", "e">>, <<"0">>} THEN Some(FALSE)
             ELSE Null

----------------------------------------------------------------------------
(* parseCommitMessage, stage by stage.  A throw ends the call: pc becomes  *)
(* "failed" and err holds the error.                                       *)

\* An error: its message, whether failFormat threw it (the message then starts
\* with "Super Commit format: "), and the token name put into the message.
NoError == [format |-> FALSE, msg |-> "", name |-> ""]
failFormat(msg) == [format |-> TRUE, msg |-> msg, name |-> ""]
\* throw new Error(msg)
plainError(msg) == [format |-> FALSE, msg |-> msg, name |-> ""]

ErrEmpty == failFormat("commit message is empty.")
ErrKey == failFormat("missing or invalid JIRA issue key at start (e.g., ABC-123).")
ErrOnlyOne(name) == [format |-> TRUE, msg |-> "only one ${name} token is allowed.", name |-> name]
ErrLogMinutes == failFormat("LOG minutes must be < 60 for h:mm.")
ErrLogForm == failFormat("LOG must be 2h@YYYY-MM-DD, 1.5h, 1:30, or 90m.")
ErrLogPositive == failFormat("LOG hours must be a positive number.")
ErrDatePattern == failFormat("date must be yyyy-mm-dd.")
ErrCalendar == plainError("LOG date must be a valid calendar date (yyyy-mm-dd).")
ErrStatusEmpty == failFormat("STATUS value cannot be empty.")

\* the test without trim()
IsEmptyMessage_noTrim(m) == ~m.str \/ m.text = <<>>

\* typeof message !== "string" || !message.trim()
IsEmptyMessage(m) == ~m.str \/ Trim(m.text) = <<>>

\* no uniqueness check
Duplicated_none(s) == {}

\* the names onlyOne rejects, and the one TOKEN_NAMES.forEach(onlyOne) reaches first
Duplicated(s) == {k \in 1..Len(TOKEN_NAMES) : onlyOne(s, TOKEN_NAMES[k])}
FirstDuplicated(s) == TOKEN_NAMES[Min(Duplicated(s))]

\* the h:mm form with mins > 60 as its check
LogHoursOf_minsAbove(timePart) ==
    LET dh == MatchDecimalHours(timePart)
        hm == MatchHourMinute(timePart)
        mm == MatchMinutes(timePart)
    IN  IF dh # Null THEN [err |-> NoError, hours |-> ParseFloat(dh[1])]
        ELSE IF hm # Null
        THEN LET h == ParseInt(hm[1][1])
                 mins == ParseInt(hm[1][2])
             IN  IF mins > 60 THEN [err |-> ErrLogMinutes, hours |-> Dbl(0, <<>>)]
                 ELSE [err |-> NoError, hours |-> DblAdd(h, DblDiv(mins, 60))]
        ELSE IF mm # Null
        THEN [err |-> NoError, hours |-> DblDiv(ParseInt(mm[1]), 60)]
        ELSE [err |-> ErrLogForm, hours |-> Dbl(0, <<>>)]

\* the three LOG forms in the code's order: the hours, or the error thrown
LogHoursOf(timePart) ==
    LET dh == MatchDecimalHours(timePart)
        hm == MatchHourMinute(timePart)
        mm == MatchMinutes(timePart)
    IN  IF dh # Null THEN [err |-> NoError, hours |-> ParseFloat(dh[1])]
        ELSE IF hm # Null
        THEN LET h == ParseInt(hm[1][1])
                 mins == ParseInt(hm[1][2])
             IN  IF mins >= 60 THEN [err |-> ErrLogMinutes, hours |-> Dbl(0, <<>>)]
                 ELSE [err |-> NoError, hours |-> DblAdd(h, DblDiv(mins, 60))]
        ELSE IF mm # Null
        THEN [err |-> NoError, hours |-> DblDiv(ParseInt(mm[1]), 60)]
        ELSE [err |-> ErrLogForm, hours |-> Dbl(0, <<>>)]

\* the LOG block up to the positivity check
LogResult(rawLog) ==
    LET r == LogHoursOf(TimePart(rawLog))
    IN  IF r.err # NoError THEN r
        ELSE IF ~DblPositive(r.hours) THEN [err |-> ErrLogPositive, hours |-> r.hours]
        ELSE r

\* the DATE token taken before the date of LOG
DateUsed_tokenFirst(rawLog, dateToken) ==
    IF dateToken # Null THEN dateToken
    ELSE IF rawLog # Null /\ DatePart(rawLog[1]) # Null /\ DatePart(rawLog[1])[1] # <<>>
    THEN DatePart(rawLog[1])
    ELSE Null

\* the date the code validates: datePart when LOG has a non-empty one, else dateToken
DateUsed(rawLog, dateToken) ==
    IF rawLog # Null /\ DatePart(rawLog[1]) # Null /\ DatePart(rawLog[1])[1] # <<>>
    THEN DatePart(rawLog[1])
    ELSE dateToken

\* the two checks in the other order
DateError_calendarFirst(d) ==
    IF ~isValidISODate(d) THEN ErrCalendar
    ELSE IF ~DatePattern(d) THEN ErrDatePattern
    ELSE NoError

\* the two checks on a date: the pattern, then the calendar
DateError(d) ==
    IF ~DatePattern(d) THEN ErrDatePattern
    ELSE IF ~isValidISODate(d) THEN ErrCalendar
    ELSE NoError

\* CAT taken before PHASE
ResolvePhase_catFirst(t) == IF t["CAT"] # Null THEN t["CAT"] ELSE t["PHASE"]

\* lines 87-89: if (!phase && catAlias) phase = catAlias
ResolvePhase(t) == IF t["PHASE"] = Null /\ t["CAT"] # Null THEN t["CAT"] ELSE t["PHASE"]

Fail(e) ==
    /\ pc' = "failed"
    /\ err' = e

\* lines 35-39: the empty check, then sanitizeFirstLine
CheckMessage ==
    /\ pc = "start"
    /\ IF IsEmptyMessage(message)
       THEN Fail(ErrEmpty) /\ UNCHANGED firstLine
       ELSE /\ firstLine' = sanitizeFirstLine(message.text)
            /\ pc' = "key"
            /\ UNCHANGED err
    /\ UNCHANGED <<input, message, issue, tok, phase, ready, logHours, logDate>>
    /\ UNCHANGED ioVars

\* lines 74-79
ExtractIssueKey ==
    /\ pc = "key"
    /\ IF KeyMatch(firstLine) = 0
       THEN Fail(ErrKey) /\ UNCHANGED issue
       ELSE /\ issue' = Some(SubSeq(firstLine, 1, KeyMatch(firstLine)))
            /\ pc' = "unique"
            /\ UNCHANGED err
    /\ UNCHANGED <<input, message, firstLine, tok, phase, ready, logHours, logDate>>
    /\ UNCHANGED ioVars

\* line 82: TOKEN_NAMES.forEach(onlyOne)
CheckUniqueness ==
    /\ pc = "unique"
    /\ IF Duplicated(firstLine) # {}
       THEN Fail(ErrOnlyOne(FirstDuplicated(firstLine)))
       ELSE pc' = "tokens" /\ UNCHANGED err
    /\ UNCHANGED <<input, message, firstLine, issue, tok, phase, ready, logHours, logDate>>
    /\ UNCHANGED ioVars

\* lines 85-98: every token is looked up in the same firstLine
ExtractTokens ==
    /\ pc = "tokens"
    /\ LET t == [n \in Names |-> tidy(getToken(firstLine, n))]
       IN  /\ tok' = t
           /\ phase' = ResolvePhase(t)
           /\ ready' = parseReady(t["READY"])
    /\ pc' = "log"
    /\ UNCHANGED <<input, message, firstLine, issue, logHours, logDate, err>>
    /\ UNCHANGED ioVars

\* lines 102-138
ParseLog ==
    /\ pc = "log"
    /\ IF tok["LOG"] = Null
       THEN pc' = "date" /\ UNCHANGED <<logHours, err>>
       ELSE LET r == LogResult(tok["LOG"][1])
            IN  IF r.err # NoError
                THEN Fail(r.err) /\ UNCHANGED logHours
                ELSE /\ logHours' = Some(r.hours)
                     /\ pc' = "date"
                     /\ UNCHANGED err
    /\ UNCHANGED <<input, message, firstLine, issue, tok, phase, ready, logDate>>
    /\ UNCHANGED ioVars

\* lines 141-173
ValidateDate ==
    /\ pc = "date"
    /\ LET d == DateUsed(tok["LOG"], tok["DATE"])
       IN  IF d = Null
           THEN pc' = "status" /\ UNCHANGED <<logDate, err>>
           ELSE IF DateError(d[1]) # NoError
           THEN Fail(DateError(d[1])) /\ UNCHANGED logDate
           ELSE /\ logDate' = d
                /\ pc' = "status"
                /\ UNCHANGED err
    /\ UNCHANGED <<input, message, firstLine, issue, tok, phase, ready, logHours>>
    /\ UNCHANGED ioVars

\* lines 175-179
Assemble ==
    /\ pc = "status"
    /\ IF tok["STATUS"] # Null /\ Trim(tok["STATUS"][1]) = <<>>
       THEN Fail(ErrStatusEmpty)
       ELSE pc' = "done" /\ UNCHANGED err
    /\ UNCHANGED <<input, message, firstLine, issue, tok, phase, ready, logHours, logDate>>
    /\ UNCHANGED ioVars

\* the record parseCommitMessage returns (in a state with pc = "done")
Returned ==
    [issue |-> issue, issueKey |-> issue, status |-> tok["STATUS"], logHours |-> logHours,
     logDate |-> logDate, comment |-> tok["COMMENT"], phase |-> phase, ready |-> ready,
     firstLine |-> firstLine]

NoRecord ==
    [issue |-> Null, issueKey |-> Null, status |-> Null, logHours |-> Null,
     logDate |-> Null, comment |-> Null, phase |-> Null, ready |-> Null,
     firstLine |-> <<>>]

Thrown(e) == [err |-> e, rec |-> NoRecord]

\* parseCommitMessage as one function of its argument: the error thrown, or the record
parseCommitMessage(m) ==
    IF IsEmptyMessage(m) THEN Thrown(ErrEmpty)
    ELSE
    LET line == sanitizeFirstLine(m.text)
    IN  IF KeyMatch(line) = 0 THEN Thrown(ErrKey)
        ELSE IF Duplicated(line) # {} THEN Thrown(ErrOnlyOne(FirstDuplicated(line)))
        ELSE
        LET t == [n \in Names |-> tidy(getToken(line, n))]
            lr == IF t["LOG"] = Null THEN [err |-> NoError, hours |-> Dbl(0, <<>>)]
                  ELSE LogResult(t["LOG"][1])
            d == DateUsed(t["LOG"], t["DATE"])
        IN  IF lr.err # NoError THEN Thrown(lr.err)
            ELSE IF d # Null /\ DateError(d[1]) # NoError THEN Thrown(DateError(d[1]))
            ELSE IF t["STATUS"] # Null /\ Trim(t["STATUS"][1]) = <<>> THEN Thrown(ErrStatusEmpty)
            ELSE [err |-> NoError,
                  rec |-> [issue |-> Some(SubSeq(line, 1, KeyMatch(line))),
                           issueKey |-> Some(SubSeq(line, 1, KeyMatch(line))),
                           status |-> t["STATUS"],
                           logHours |-> IF t["LOG"] = Null THEN Null ELSE Some(lr.hours),
                           logDate |-> d,
                           comment |-> t["COMMENT"],
                           phase |-> ResolvePhase(t),
                           ready |-> parseReady(t["READY"]),
                           firstLine |-> line]]

----------------------------------------------------------------------------
(* The messages the parser is called with.  A message is composed of a      *)
(* prefix, an issue key, tokens " NAME:value" and a suffix; the composition *)
(* is kept in `input` so that properties can speak of the tokens written.   *)
(* Every name has one plain value and some unusual ones; a line costs one   *)
(* per token and one more per unusual part, and MaxCost bounds the cost.    *)

MaxCost == 4

DigitChar(d) ==
    CASE d = 0 -> "0" [] d = 1 -> "1" [] d = 2 -> "2" [] d = 3 -> "3" [] d = 4 -> "4"
      [] d = 5 -> "5" [] d = 6 -> "6" [] d = 7 -> "7" [] d = 8 -> "8" [] d = 9 -> "9"

\* the decimal digits of n
RECURSIVE ToDigits(_)
ToDigits(n) == IF n < 10 THEN <<DigitChar(n)>> ELSE ToDigits(n \div 10) \o <<DigitChar(n % 10)>>

\* n in at least w digits
RECURSIVE Padded(_, _)
Padded(n, w) == IF Len(ToDigits(n)) >= w THEN ToDigits(n) ELSE <<"0">> \o Padded(n, w - 1)

\* a duration of mins minutes written in one of the three LOG forms; the decimal
\* form exists when mins/60 has at most two decimals (mins is a multiple of 3)
HasForm(form, mins) == form # "h" \/ mins % 3 = 0

TimeText(form, mins) ==
    CASE form = "m" -> ToDigits(mins) \o <<"m">>
      [] form = "hmm" -> ToDigits(mins \div 60) \o <<":">> \o Padded(mins % 60, 2)
      [] form = "h" ->
            LET c == (mins \div 3) * 5       \* hundredths of an hour
                fr == IF c % 100 = 0 THEN <<>>
                      ELSE IF c % 10 = 0 THEN <<".">> \o ToDigits((c % 100) \div 10)
                      ELSE <<".">> \o Padded(c % 100, 2)
            IN  ToDigits(c \div 100) \o fr \o <<"h">>

DateText(y, mo, d) == Padded(y, 4) \o <<"-">> \o Padded(mo, 2) \o <<"-">> \o Padded(d, 2)

\* A token as written: its name, its value, what it costs beyond being a token,
\* and for a LOG amount its form and minutes (form "" otherwise).
Token(name, val, odd) == [name |-> name, val |-> val, odd |-> odd, form |-> "", mins |-> 0]
LogToken(form, mins, odd) ==
    [name |-> "LOG", val |-> TimeText(form, mins), odd |-> odd, form |-> form, mins |-> mins]
LogAt(t, date) == [t EXCEPT !.val = t.val \o <<"@">> \o date, !.odd = 1]

LogMinutes == {0, 73, 90}

LogTokens ==
    {LogToken("h", 120, 0)}
    \cup {LogToken(x[1], x[2], 1) :
            x \in {y \in {"h", "hmm", "m"} \X LogMinutes : HasForm(y[1], y[2])}}

TokenChoices ==
    {Token("STATUS", <<"O", "k">>, 0),
     Token("STATUS", <<"a", " ", "b">>, 1),
     Token("STATUS", <<>>, 1),
     Token("COMMENT", <<"x">>, 0),
     Token("COMMENT", <<"a", " ", "H", "T", "T", "P", ":", "5", " ", "b">>, 1),
     Token("COMMENT", <<"z", "L", "O", "G", ":", "1", "h">>, 1),
     Token("COMMENT", <<>>, 1),
     Token("PHASE", <<"D", "e", "v">>, 0),
     Token("PHASE", <<>>, 1),
     Token("CAT", <<"Q", "A">>, 0),
     Token("CAT", <<>>, 1),
     Token("READY", <<"Y", "e", "s">>, 0),
     Token("READY", <<"N">>, 1),
     Token("READY", <<"m", "a", "y", "b", "e">>, 1),
     Token("DATE", DateText(2025, 10, 12), 0),
     Token("DATE", DateText(2025, 2, 30), 1),
     Token("DATE", <<"2", "0", "2", "5", "/", "0", "1", "/", "0", "1">>, 1),
     Token("LOG", <<"1", ":", "6", "0">>, 1),
     Token("LOG", <<"1", ".", "5">>, 1),
     Token("LOG", <<>>, 1),
     LogAt(LogToken("h", 120, 0), DateText(2025, 10, 1)),
     LogAt(LogToken("h", 120, 0), DateText(2025, 2, 30)),
     LogAt(LogToken("h", 120, 0), <<>>)}
    \cup LogTokens

\* the issue keys: the plain one, and unusual ones (valid or not)
KeyChoices ==
    {[text |-> <<"A", "B", "C", "-", "1">>, odd |-> 0],
     [text |-> <<"P", "A", "Y", "1", "-", "1", "0", "1">>, odd |-> 1],
     [text |-> <<"A", "B", "C", "-", "1", "-", "2">>, odd |-> 1],
     [text |-> <<"O", "P", "S", "5", "5">>, odd |-> 1],
     [text |-> <<"A", "-", "1">>, odd |-> 1],
     [text |-> <<"A", "B", "C", "-", "1", "x">>, odd |-> 1],
     [text |-> <<"A", "B", "C", "D", "E", "F", "G", "H", "I", "J", "K", "-", "1">>, odd |-> 1],
     [text |-> <<"a", "b", "c", "-", "1">>, odd |-> 1],
     [text |-> <<>>, odd |-> 1]}

\* what precedes the key, and what follows the last token
PrefixChoices ==
    {[text |-> <<>>, odd |-> 0],
     [text |-> <<" ">>, odd |-> 1],
     [text |-> <<BOM>>, odd |-> 1],
     [text |-> <<ZW>>, odd |-> 1]}

SuffixChoices ==
    {[text |-> <<>>, odd |-> 0],
     [text |-> <<" ">>, odd |-> 1],
     [text |-> <<"\n", "L", "O", "G", ":", "9", "h">>, odd |-> 1],
     [text |-> <<"\r", "\n", "x">>, odd |-> 1]}

TokenCost(t) == 1 + t.odd

\* the token sequences that cost at most c
RECURSIVE TokenSeqs(_)
TokenSeqs(c) ==
    {<<>>} \cup
    UNION {{<<t>> \o rest : rest \in TokenSeqs(c - TokenCost(t))} :
             t \in {x \in TokenChoices : TokenCost(x) <= c}}

RECURSIVE SeqCost(_)
SeqCost(ts) == IF ts = <<>> THEN 0 ELSE TokenCost(Head(ts)) + SeqCost(Tail(ts))

Inputs ==
    {[str |-> TRUE, pre |-> p.text, key |-> k.text, toks |-> ts, post |-> q.text] :
        <<p, k, q, ts>> \in
            {x \in PrefixChoices \X KeyChoices \X SuffixChoices \X TokenSeqs(MaxCost) :
                x[1].odd + x[2].odd + x[3].odd + SeqCost(x[4]) <= MaxCost}}
    \cup {[str |-> FALSE, pre |-> <<>>, key |-> <<>>, toks |-> <<>>, post |-> <<>>]}

\* " NAME:value"
TokenText(t) == <<" ">> \o NameChars(t.name) \o <<":">> \o t.val

RECURSIVE TokensText(_)
TokensText(ts) == IF ts = <<>> THEN <<>> ELSE TokenText(Head(ts)) \o TokensText(Tail(ts))

\* the line written for a key and tokens
LineOf(key, ts) == key \o TokensText(ts)

MessageOf(in) ==
    [str |-> in.str, text |-> in.pre \o LineOf(in.key, in.toks) \o in.post]

Init ==
    /\ input \in Inputs
    /\ message = MessageOf(input)
    /\ pc = "start"
    /\ firstLine = <<>>
    /\ issue = Null
    /\ tok = [n \in Names |-> Null]
    /\ phase = Null
    /\ ready = Null
    /\ logHours = Null
    /\ logDate = Null
    /\ err = NoError
    /\ IoIdle

Next ==
    \/ CheckMessage
    \/ ExtractIssueKey
    \/ CheckUniqueness
    \/ ExtractTokens
    \/ ParseLog
    \/ ValidateDate
    \/ Assemble

Spec == Init /\ [][Next]_vars

----------------------------------------------------------------------------
(* A second population of messages: the plain key with at most two tokens, *)
(* and broad ranges of what a field's value, the start of the message and   *)
(* its end can be: dates of many years, months and days (in range or not),  *)
(* READY words in several cases, leading runs of BOM, zero-width characters *)
(* and whitespace, and endings with trailing whitespace and further lines.  *)

Years == {0, 50, 99, 100, 1900, 2000, 2024, 2025, 9999}
Months == 0..13
Days == {0, 1, 28, 29, 30, 31, 32}

DateTexts == {DateText(x[1], x[2], x[3]) : x \in Years \X Months \X Days}

ReadyWords ==
    {<<"y">>,
     <<"Y">>,
     <<"y", "e", "s">>,
     <<"Y", "e", "s">>,
     <<"Y", "E", "S">>,
     <<"y", "E", "s">>,
     <<"t", "r", "u", "e">>,
     <<"T", "r", "u", "e">>,
     <<"T", "R", "U", "E">>,
     <<"1">>,
     <<"n">>,
     <<"N">>,
     <<"n", "o">>,
     <<"N", "o">>,
     <<"N", "O">>,
     <<"f", "a", "l", "s", "e">>,
     <<"F", "a", "l", "s", "e">>,
     <<"f", "A", "l", "s", "e">>,
     <<"0">>,
     <<"m", "a", "y", "b", "e">>,
     <<"2">>,
     <<"y", "e">>,
     <<"o", "n">>,
     <<"1", "0">>,
     <<"t", "r", "u">>,
     <<"y", "e", "s", " ", "p", "l", "e", "a", "s", "e">>,
     <<"n", "o", "p", "e">>,
     <<"-", "1">>}

NoiseChoices ==
    {<<>>,
     <<" ">>,
     <<"\t">>,
     <<BOM>>,
     <<ZW>>,
     <<ZW, ZW>>,
     <<BOM, ZW>>,
     <<BOM, ZW, " ">>,
     <<ZW, " ">>,
     <<" ", ZW>>,
     <<ZW, BOM>>,
     <<" ", BOM>>,
     <<BOM, BOM>>,
     <<" ", "\t">>,
     <<"\n">>,
     <<BOM, " ", ZW>>}

EndChoices ==
    {<<>>,
     <<" ">>,
     <<" ", "\t", " ">>,
     <<"\n">>,
     <<"\n", "L", "O", "G", ":", "9", "h">>,
     <<"\r", "\n", "S", "T", "A", "T", "U", "S", ":", "N", "o", " ", "S", "T", "A", "T", "U", "S", ":", "x">>,
     <<"\n", "\n", "b", "o", "d", "y">>,
     <<" ", "\r", "\n", " ", "x">>,
     <<"\r", "L", "O", "G", ":", "9", "h">>}

PlainKey == <<"A", "B", "C", "-", "1">>

\* a message of the plain key and the tokens ts
PlainInput(ts) == [str |-> TRUE, pre |-> <<>>, key |-> PlainKey, toks |-> ts, post |-> <<>>]

DateInputs ==
    {PlainInput(<<Token("DATE", d, 0)>>) : d \in DateTexts}
    \cup {PlainInput(<<LogAt(LogToken("h", 120, 0), d)>>) : d \in DateTexts}

ReadyInputs ==
    {PlainInput(<<Token("READY", w, 0)>>) : w \in ReadyWords}
    \cup {PlainInput(<<Token("READY", w, 0), Token("STATUS", <<"O", "k">>, 0)>>) : w \in ReadyWords}
    \cup {PlainInput(<<Token("LOG", <<"1", ".", "5">>, 1), Token("READY", w, 0)>>) : w \in ReadyWords}

NoiseTokens ==
    {<<>>,
     <<Token("STATUS", <<"a", " ", "b">>, 0)>>,
     <<LogAt(LogToken("h", 120, 0), DateText(2025, 10, 1)), Token("COMMENT", <<"x">>, 0)>>}

NoiseInputs ==
    {[str |-> TRUE, pre |-> x[1], key |-> x[2], toks |-> x[3], post |-> x[4]] :
        x \in NoiseChoices \X {PlainKey, <<>>} \X NoiseTokens \X EndChoices}

FieldInputs ==
    DateInputs \cup ReadyInputs \cup NoiseInputs
    \cup {[str |-> FALSE, pre |-> <<>>, key |-> <<>>, toks |-> <<>>, post |-> <<>>]}

InitFields ==
    /\ input \in FieldInputs
    /\ message = MessageOf(input)
    /\ pc = "start"
    /\ firstLine = <<>>
    /\ issue = Null
    /\ tok = [n \in Names |-> Null]
    /\ phase = Null
    /\ ready = Null
    /\ logHours = Null
    /\ logDate = Null
    /\ err = NoError
    /\ IoIdle

SpecFields == InitFields /\ [][Next]_vars

----------------------------------------------------------------------------
(* What the properties say of the message written.                         *)

Finished == pc \in {"done", "failed"}
TokensExtracted == pc \in {"log", "date", "status", "done"}

\* k is an issue key: an upper-case letter, 1 to 9 upper-case letters or digits,
\* a hyphen, one or more digits
IsIssueKey(k) ==
    \E h \in 3..11 :
        /\ h < Len(k)
        /\ k[1] \in Upper
        /\ \A i \in 2..(h - 1) : k[i] \in Upper \cup Digits
        /\ k[h] = "-"
        /\ \A i \in (h + 1)..Len(k) : k[i] \in Digits

\* the line starts with an issue key that ends at the end of the line or before
\* a character that is no word character
StartsWithIssueKey(line) ==
    \E n \in 1..Len(line) :
        /\ IsIssueKey(SubSeq(line, 1, n))
        /\ n = Len(line) \/ ~IsWord(line[n + 1])

\* the indexes at which name is written, and those where it has a value
Written(name) == {i \in 1..Len(input.toks) : input.toks[i].name = name}
WrittenNonEmpty(name) == {i \in Written(name) : Trim(input.toks[i].val) # <<>>}

DistinctNames(ts) == \A i, j \in 1..Len(ts) : i # j => ts[i].name # ts[j].name

\* a value in which no whitespace is followed by a reserved name and a colon
HidesNoToken(v) ==
    \A k \in 1..Len(v) : \A n \in Names :
        ~(IsWs(v[k]) /\ StartsAt(v, k + 1, NameChars(n) \o <<":">>))

\* distinct names, each with a non-empty value that is one value
WellFormed(ts) ==
    /\ DistinctNames(ts)
    /\ \A i \in 1..Len(ts) :
        ts[i].val # <<>> /\ Trim(ts[i].val) = ts[i].val /\ HidesNoToken(ts[i].val)

\* a valid issue key followed by distinct well-formed tokens
WellFormedLine == input.str /\ IsIssueKey(input.key) /\ WellFormed(input.toks)

Permuted(ts, p) == [i \in 1..Len(ts) |-> ts[p[i]]]

Directives(rec) ==
    <<rec.status, rec.logHours, rec.logDate, rec.comment, rec.phase, rec.ready>>

\* the value written for name on a line of distinct names, or Null
WrittenValue(name) ==
    IF Written(name) = {} THEN Null
    ELSE Some(input.toks[CHOOSE i \in Written(name) : TRUE].val)

----------------------------------------------------------------------------
\* C1: token order independence. When the message is a valid issue key followed
\* by distinct well-formed tokens and the parse returns a record, the parse of
\* every permutation of the tokens returns a record too, with the same status,
\* logHours, logDate, comment, phase and ready.
C1_OrderIndependent ==
    (pc = "done" /\ WellFormedLine) =>
        \A p \in Permutations(1..Len(input.toks)) :
            LET r == parseCommitMessage(MessageOf([input EXCEPT !.toks = Permuted(input.toks, p)]))
            IN  r.err = NoError /\ Directives(r.rec) = Directives(Returned)

C1_Witness ==
    /\ pc = "done" /\ WellFormedLine
    /\ Len(input.toks) >= 3
    /\ input.toks[1].name = "COMMENT"
    /\ tok["STATUS"] # Null /\ tok["COMMENT"] # Null
    /\ logHours # Null /\ logDate # Null

\* C2: boundary safety. On a line of a valid issue key and distinct well-formed
\* tokens, whose values may hold a colon after a word that is no reserved name
\* (HTTP:5) or a reserved name and colon with no whitespace before it (zLOG:1h),
\* every token is extracted with exactly the value written, and no other token is.
C2_BoundarySafe ==
    (TokensExtracted /\ WellFormedLine) =>
        \A n \in Names : tok[n] = WrittenValue(n)

C2_Witness ==
    /\ pc = "done" /\ WellFormedLine
    /\ \E i \in 1..(Len(input.toks) - 1) :
        /\ input.toks[i].name = "COMMENT"
        /\ \E k \in 1..Len(input.toks[i].val) : input.toks[i].val[k] = ":"
        /\ input.toks[i + 1].name = "LOG"
    /\ logHours # Null

\* C3: empty-value tokens are absent. A reserved name written with no value is
\* treated as if it were not written: the parse ends as the parse of the line
\* without the empty-valued tokens does, with the same error or the same fields,
\* so the text of the following token is never taken as its value.
C3_EmptyTokenAbsent ==
    (Finished /\ input.str /\ IsIssueKey(input.key) /\ DistinctNames(input.toks)) =>
        LET kept == SelectSeq(input.toks, LAMBDA t : t.val # <<>>)
            r == parseCommitMessage(MessageOf([input EXCEPT !.toks = kept]))
        IN  /\ r.err = err
            /\ pc = "done" => Directives(r.rec) = Directives(Returned)

NameIndex(n) == CHOOSE k \in 1..Len(TOKEN_NAMES) : TOKEN_NAMES[k] = n

\* the names written twice or more with a value
WrittenTwice == {n \in Names : Cardinality(WrittenNonEmpty(n)) >= 2}

\* C4 as claimed: on a line with a valid issue key, every name written twice
\* with a value makes the parse fail with 'only one <NAME> token is allowed.'
\* naming that name.
C4_DuplicateNamed ==
    (Finished /\ StartsWithIssueKey(firstLine)) =>
        \A n \in WrittenTwice : pc = "failed" /\ err = ErrOnlyOne(n)

\* C4, amended: on a line with a valid issue key, a name written twice with a
\* value makes the parse fail with 'only one <X> token is allowed.', where X is
\* that name, or a name earlier in TOKEN_NAMES that is written twice as well.
C4_DuplicateRejected ==
    (Finished /\ StartsWithIssueKey(firstLine)) =>
        \A n \in WrittenTwice :
            /\ pc = "failed"
            /\ err.format
            /\ err.name \in Names
            /\ err = ErrOnlyOne(err.name)
            /\ \/ err.name = n
               \/ /\ NameIndex(err.name) < NameIndex(n)
                  /\ Cardinality(Written(err.name)) >= 2

C4_Witness ==
    /\ pc = "failed"
    /\ StartsWithIssueKey(firstLine)
    /\ Cardinality(WrittenTwice) = 2
    /\ "LOG" \in WrittenTwice
    /\ err = ErrOnlyOne("STATUS")

\* the message is a string with a character that is no whitespace
NonBlank == message.str /\ \E k \in 1..Len(message.text) : ~IsWs(message.text[k])

\* C5: mandatory issue key. When the message is not blank and its sanitized
\* first line does not start with a valid issue key, the parse fails with the
\* format error for a missing or invalid issue key, whatever tokens follow.
C5_KeyMandatory ==
    (Finished /\ NonBlank /\ ~StartsWithIssueKey(firstLine)) =>
        pc = "failed" /\ err = ErrKey

C5_Witness ==
    /\ pc = "failed" /\ err = ErrKey
    /\ input.key = <<"O", "P", "S", "5", "5">>
    /\ Len(input.toks) >= 2 /\ WellFormed(input.toks)
    /\ Written("LOG") # {}

\* C6: issue-key-only input. When the message is just a valid issue key (with
\* whatever the sanitizer removes around it), the parse returns a record whose
\* issue is that key and whose status, logHours, logDate, comment, phase and
\* ready are all null.
C6_KeyOnly ==
    (Finished /\ input.str /\ input.toks = <<>> /\ IsIssueKey(input.key)) =>
        /\ pc = "done"
        /\ Returned.issue = Some(input.key)
        /\ Directives(Returned) = <<Null, Null, Null, Null, Null, Null>>

C6_Witness ==
    /\ pc = "done"
    /\ input.toks = <<>>
    /\ IsIssueKey(input.key)
    /\ input.post # <<>>
    /\ Returned.issue = Some(input.key)

\* C7: issue invariant. In every record returned, issue is an issue key (an
\* upper-case letter, 1 to 9 upper-case letters or digits, a hyphen, digits), it
\* is a prefix of firstLine, what follows it in firstLine is the end of the line
\* or a character that is no word character, and issueKey equals issue.
C7_IssueInvariant ==
    pc = "done" =>
        /\ Returned.issue # Null
        /\ LET k == Returned.issue[1]
           IN  /\ IsIssueKey(k)
               /\ Len(k) <= Len(firstLine)
               /\ SubSeq(firstLine, 1, Len(k)) = k
               /\ Len(k) = Len(firstLine) \/ ~IsWord(firstLine[Len(k) + 1])
        /\ Returned.issueKey = Returned.issue

C7_Witness ==
    /\ pc = "done"
    /\ issue = Some(<<"A", "B", "C", "-", "1">>)
    /\ Len(firstLine) > 5
    /\ firstLine[6] = "-"

\* the LOG amounts written: tokens LOG of a known form and number of minutes
LogAmounts == {i \in Written("LOG") : input.toks[i].form # ""}

\* C8: LOG grammar equivalence. When the parse returns a record for a line whose
\* LOG token is a duration of M > 0 minutes in one of the three forms, logHours
\* is what each of the forms <M>m, <H>:<MM> and <x>h of the same duration yields.
C8_FormsAgree ==
    (pc = "done" /\ Cardinality(Written("LOG")) = 1 /\ LogAmounts # {}) =>
        \A i \in LogAmounts : \A g \in {"h", "hmm", "m"} :
            (input.toks[i].mins > 0 /\ HasForm(g, input.toks[i].mins)) =>
                logHours = Some(LogHoursOf(TimeText(g, input.toks[i].mins)).hours)

\* the forms of a LOG time part, as the grammar states them
DigitsOnly(x) == x # <<>> /\ \A k \in 1..Len(x) : x[k] \in Digits

FormHours(t) ==
    /\ Len(t) >= 2
    /\ t[Len(t)] \in {"h", "H"}
    /\ LET body == SubSeq(t, 1, Len(t) - 1)
       IN  \/ DigitsOnly(body)
           \/ \E d \in 2..(Len(body) - 1) :
                /\ body[d] = "."
                /\ DigitsOnly(SubSeq(body, 1, d - 1))
                /\ DigitsOnly(SubSeq(body, d + 1, Len(body)))

FormHourMinute(t) ==
    \E c \in 2..(Len(t) - 1) :
        /\ t[c] = ":"
        /\ DigitsOnly(SubSeq(t, 1, c - 1))
        /\ DigitsOnly(SubSeq(t, c + 1, Len(t)))
        /\ Len(t) - c <= 2

FormMinutes(t) ==
    /\ Len(t) >= 2
    /\ t[Len(t)] \in {"m", "M"}
    /\ DigitsOnly(SubSeq(t, 1, Len(t) - 1))

\* the minute component of a time part in the h:mm form
MinuteComponent(t) ==
    LET c == CHOOSE k \in 1..Len(t) : t[k] = ":" IN ParseInt(SubSeq(t, c + 1, Len(t)))

\* the part of a LOG value before its first "@"
BeforeAt(v) ==
    IF \E k \in 1..Len(v) : v[k] = "@"
    THEN SubSeq(v, 1, (CHOOSE k \in 1..Len(v) : v[k] = "@" /\ \A j \in 1..(k - 1) : v[j] # "@") - 1)
    ELSE v

\* the line reaches the LOG block with the LOG value written: a valid issue key,
\* no name written twice, every token with a value, one of them LOG
ReachesLog ==
    /\ Finished
    /\ StartsWithIssueKey(firstLine)
    /\ WellFormed(input.toks)
    /\ Written("LOG") # {}

LogWritten == BeforeAt(WrittenValue("LOG")[1])

\* C9: LOG grammar failures. On a line that reaches the LOG block, a time part in
\* the h:mm form with a minute component of 60 or more fails with 'LOG minutes
\* must be < 60 for h:mm', and a time part in none of the three forms fails with
\* 'LOG must be 2h@YYYY-MM-DD, 1.5h, 1:30, or 90m.'; no record is returned.
C9_LogGrammarFailures ==
    ReachesLog =>
        /\ (FormHourMinute(LogWritten) /\ MinuteComponent(LogWritten) >= 60) =>
                pc = "failed" /\ err = ErrLogMinutes
        /\ (~FormHours(LogWritten) /\ ~FormHourMinute(LogWritten) /\ ~FormMinutes(LogWritten)) =>
                pc = "failed" /\ err = ErrLogForm

C9_Witness ==
    /\ ReachesLog
    /\ Len(input.toks) >= 2
    /\ FormHourMinute(LogWritten) /\ MinuteComponent(LogWritten) >= 60
    /\ pc = "failed" /\ err = ErrLogMinutes

\* a double greater than zero
Positive(x) == x.ip > 0 \/ \E k \in 1..Len(x.fb) : x.fb[k] = 1

\* C10: logHours invariant. In every record returned logHours is null exactly
\* when no LOG token with a value is written, and is greater than 0 otherwise;
\* on a line that reaches the LOG block a LOG amount of zero (0h, 0:00, 0m)
\* fails with 'LOG hours must be a positive number.'.
C10_LogHoursInvariant ==
    /\ pc = "done" =>
        /\ logHours = Null <=> WrittenNonEmpty("LOG") = {}
        /\ logHours # Null => Positive(logHours[1])
    /\ (ReachesLog /\ LogAmounts # {}) =>
        \A i \in LogAmounts :
            input.toks[i].mins = 0 => pc = "failed" /\ err = ErrLogPositive

C10_Witness ==
    /\ ReachesLog
    /\ \E i \in LogAmounts : input.toks[i].mins = 0 /\ input.toks[i].form = "hmm"
    /\ pc = "failed" /\ err = ErrLogPositive

----------------------------------------------------------------------------
(* Dates, as the properties speak of them.                                 *)

\* the text after the first "@" of the LOG value written, trimmed, when there is
\* such a text; Null otherwise
InlineDate ==
    IF WrittenNonEmpty("LOG") = {} THEN Null
    ELSE LET v == input.toks[CHOOSE i \in WrittenNonEmpty("LOG") : TRUE].val
         IN  IF BeforeAt(v) = v \/ Trim(SubSeq(v, Len(BeforeAt(v)) + 2, Len(v))) = <<>>
             THEN Null
             ELSE Some(Trim(SubSeq(v, Len(BeforeAt(v)) + 2, Len(v))))

\* the value of the DATE token written, when it has one
DateTokenWritten ==
    IF WrittenNonEmpty("DATE") = {} THEN Null
    ELSE Some(Trim(input.toks[CHOOSE i \in WrittenNonEmpty("DATE") : TRUE].val))

\* the date of the line: the inline date of LOG, else the DATE token, else none
DateWritten == IF InlineDate # Null THEN InlineDate ELSE DateTokenWritten

\* four digits, a hyphen, two digits, a hyphen, two digits
FixedWidth(d) ==
    /\ Len(d) = 10
    /\ DigitsOnly(SubSeq(d, 1, 4)) /\ d[5] = "-"
    /\ DigitsOnly(SubSeq(d, 6, 7)) /\ d[8] = "-"
    /\ DigitsOnly(SubSeq(d, 9, 10))

\* the length of month mo (1..12) of year y in the Gregorian calendar
MonthLength(y, mo) ==
    CASE mo \in {4, 6, 9, 11} -> 30
      [] mo = 2 -> IF y % 400 = 0 \/ (y % 4 = 0 /\ y % 100 # 0) THEN 29 ELSE 28
      [] OTHER -> 31

\* a fixed-width date that is a day of the calendar
RealDate(d) ==
    LET y == ParseInt(SubSeq(d, 1, 4))
        mo == ParseInt(SubSeq(d, 6, 7))
        day == ParseInt(SubSeq(d, 9, 10))
    IN  /\ mo \in 1..12
        /\ day >= 1
        /\ day <= MonthLength(y, mo)

\* the line reaches the date validation: a valid issue key, distinct tokens with
\* values, and a LOG amount (if LOG is written) that is a positive duration
ReachesDate ==
    /\ Finished
    /\ StartsWithIssueKey(firstLine)
    /\ WellFormed(input.toks)
    /\ \A i \in Written("LOG") : input.toks[i].form # "" /\ input.toks[i].mins > 0

\* C11: two-stage date validation. On a line that reaches the date validation,
\* a date (the inline date of LOG, or the DATE token when it is the one used)
\* that is not of the fixed-width pattern fails with the format error 'date must
\* be yyyy-mm-dd.', and a date of the pattern that is no calendar date fails with
\* 'LOG date must be a valid calendar date (yyyy-mm-dd).', which is no format
\* error.
C11_TwoStageDate ==
    (ReachesDate /\ DateWritten # Null) =>
        /\ ~FixedWidth(DateWritten[1]) =>
                pc = "failed" /\ err = ErrDatePattern /\ err.format
        /\ (FixedWidth(DateWritten[1]) /\ ~RealDate(DateWritten[1])) =>
                pc = "failed" /\ err = ErrCalendar /\ ~err.format

C11_Witness ==
    /\ ReachesDate
    /\ InlineDate # Null /\ DateTokenWritten # Null
    /\ FixedWidth(InlineDate[1]) /\ ~RealDate(InlineDate[1])
    /\ ~FixedWidth(DateTokenWritten[1])
    /\ pc = "failed" /\ err = ErrCalendar

\* the message has no carriage return and no line feed
SingleLine == \A k \in 1..Len(message.text) : message.text[k] \notin {"\r", "\n"}

\* C12: real calendar dates. On a one-line message that reaches the date validation with a
\* date of the fixed-width pattern, of any four-digit year, the parse returns a
\* record with that logDate when the date is a calendar date, and fails with the
\* calendar error when it is not.
C12_RealDates ==
    (ReachesDate /\ SingleLine /\ DateWritten # Null /\ FixedWidth(DateWritten[1])) =>
        IF RealDate(DateWritten[1])
        THEN pc = "done" /\ logDate = DateWritten
        ELSE pc = "failed" /\ err = ErrCalendar

\* C13: logDate resolution. In every record returned logDate is the inline date
\* of LOG if there is one, else the value of the DATE token if there is one, else
\* null; without a LOG token logHours is null; an inline date and a DATE token
\* together raise no error.
C13_LogDateResolution ==
    pc = "done" =>
        /\ logDate = DateWritten
        /\ WrittenNonEmpty("LOG") = {} => logHours = Null

C13_Witness ==
    /\ pc = "done"
    /\ InlineDate # Null /\ DateTokenWritten # Null
    /\ InlineDate # DateTokenWritten
    /\ logDate = InlineDate

----------------------------------------------------------------------------
(* READY and PHASE, as the properties speak of them.                       *)

\* v is the word w (given in lower case) in some mix of cases
IsWord_AnyCase(v, w) == Len(v) = Len(w) /\ \A k \in 1..Len(v) : ToLower(v[k]) = w[k]

TrueWords == {<<"y">>, <<"y", "e", "s">>, <<"t", "r", "u", "e">>, <<"1">>}
FalseWords == {<<"n">>, <<"n", "o">>, <<"f", "a", "l", "s", "e">>, <<"0">>}

\* what a READY value stands for
ReadyMeaning(v) ==
    IF \E w \in TrueWords : IsWord_AnyCase(Trim(v), w) THEN Some(TRUE)
    ELSE IF \E w \in FalseWords : IsWord_AnyCase(Trim(v), w) THEN Some(FALSE)
    ELSE Null

\* the line without its READY tokens
WithoutReady == [input EXCEPT !.toks = SelectSeq(input.toks, LAMBDA t : t.name # "READY")]

\* C14: READY tri-state mapping. In every record returned for a line with one
\* READY value, ready is true when the trimmed value is y, yes, true or 1 in
\* any case, false when it is n, no, false or 0 in any case, and null for any
\* other value; it is null when no READY token is written; and a line with one
\* READY token ends with the error (or with none) that the line without the
\* token ends with.
C14_ReadyMapping ==
    /\ (pc = "done" /\ SingleLine /\ WellFormed(input.toks)) =>
            ready = IF Written("READY") = {} THEN Null
                    ELSE ReadyMeaning(WrittenValue("READY")[1])
    /\ (Finished /\ Cardinality(Written("READY")) = 1) =>
            err = parseCommitMessage(MessageOf(WithoutReady)).err

C14_Witness ==
    /\ pc = "done"
    /\ Cardinality(Written("READY")) = 1
    /\ WrittenValue("READY")[1][1] \in Upper
    /\ Len(WrittenValue("READY")[1]) > 1
    /\ ready = Some(FALSE)

\* C15: PHASE/CAT resolution. In every record returned for a line whose tokens
\* have values, phase is the PHASE value when PHASE is written, else the CAT
\* value when CAT is written, else null; and a line on which no name is written
\* twice never fails with an 'only one ... token' error, whether or not it has
\* both PHASE and CAT.
C15_PhaseResolution ==
    /\ (pc = "done" /\ WellFormed(input.toks)) =>
            phase = IF Written("PHASE") # {} THEN WrittenValue("PHASE")
                    ELSE WrittenValue("CAT")
    /\ (Finished /\ DistinctNames(input.toks)) => err.name = ""

C15_Witness ==
    /\ pc = "done"
    /\ WellFormed(input.toks)
    /\ Written("PHASE") # {} /\ Written("CAT") # {}
    /\ \E i \in Written("CAT") : \E j \in Written("PHASE") : i < j
    /\ phase = WrittenValue("PHASE")
    /\ phase # WrittenValue("CAT")

----------------------------------------------------------------------------
(* The rules a line can break, in the order of the pipeline.               *)

\* every token written has a value, which is one trimmed value
ValuesGiven ==
    \A i \in 1..Len(input.toks) :
        /\ input.toks[i].val # <<>>
        /\ Trim(input.toks[i].val) = input.toks[i].val
        /\ HidesNoToken(input.toks[i].val)

BreaksKey == ~StartsWithIssueKey(LineOf(input.key, input.toks))

BreaksUniqueness == WrittenTwice # {}

\* the time part of a LOG value is in one of the three forms, minutes below 60
GrammarOk(v) ==
    \/ FormHours(BeforeAt(v))
    \/ FormHourMinute(BeforeAt(v)) /\ MinuteComponent(BeforeAt(v)) < 60
    \/ FormMinutes(BeforeAt(v))

BreaksLogGrammar == \E i \in Written("LOG") : ~GrammarOk(input.toks[i].val)

BreaksPositivity == \E i \in LogAmounts : input.toks[i].mins = 0

BreaksDatePattern == DateWritten # Null /\ ~FixedWidth(DateWritten[1])

BreaksCalendar ==
    DateWritten # Null /\ FixedWidth(DateWritten[1]) /\ ~RealDate(DateWritten[1])

\* C16: first error wins. A call that has ended, for a message whose tokens have
\* values, ends with the error of the first rule broken in the order empty
\* input, issue key, duplicate token, LOG grammar, LOG positivity, date pattern,
\* calendar validity, whatever later rules are broken too, and returns a record
\* when none is broken.
C16_FirstErrorWins ==
    (Finished /\ ValuesGiven) =>
        IF ~NonBlank THEN pc = "failed" /\ err = ErrEmpty
        ELSE IF BreaksKey THEN pc = "failed" /\ err = ErrKey
        ELSE IF BreaksUniqueness
        THEN pc = "failed" /\ err.name \in WrittenTwice /\ err = ErrOnlyOne(err.name)
        ELSE IF BreaksLogGrammar THEN pc = "failed" /\ err \in {ErrLogMinutes, ErrLogForm}
        ELSE IF BreaksPositivity THEN pc = "failed" /\ err = ErrLogPositive
        ELSE IF BreaksDatePattern THEN pc = "failed" /\ err = ErrDatePattern
        ELSE IF BreaksCalendar THEN pc = "failed" /\ err = ErrCalendar
        ELSE pc = "done" /\ err = NoError

C16_Witness ==
    /\ Finished /\ ValuesGiven /\ NonBlank
    /\ ~BreaksKey
    /\ BreaksUniqueness
    /\ BreaksLogGrammar
    /\ "LOG" \notin WrittenTwice
    /\ pc = "failed" /\ err = ErrOnlyOne("STATUS")

----------------------------------------------------------------------------
(* Lines, leading noise and blank messages.                                *)

\* the text before index k
Before(text, k) == SubSeq(text, 1, k - 1)

\* the first line when a line feed, with a carriage return before it if there is
\* one, ends a line
FirstLineLF(text) ==
    IF \A k \in 1..Len(text) : text[k] # "\n" THEN text
    ELSE LET k == CHOOSE j \in 1..Len(text) : text[j] = "\n" /\ \A i \in 1..(j - 1) : text[i] # "\n"
         IN  IF k > 1 /\ text[k - 1] = "\r" THEN Before(text, k - 1) ELSE Before(text, k)

\* the first line when a carriage return or a line feed ends a line
FirstLineAny(text) ==
    IF \A k \in 1..Len(text) : text[k] \notin {"\r", "\n"} THEN text
    ELSE Before(text, CHOOSE j \in 1..Len(text) :
                        text[j] \in {"\r", "\n"} /\ \A i \in 1..(j - 1) : text[i] \notin {"\r", "\n"})

Blank(text) == \A k \in 1..Len(text) : IsWs(text[k])

\* the call has ended as the call with the message `line` alone ends: a record in
\* both cases, and then the same record, or an error in both cases, and then the
\* same error unless `line` is blank
EndsAsFor(line) ==
    LET r == parseCommitMessage([str |-> TRUE, text |-> line])
    IN  /\ pc = "done" <=> r.err = NoError
        /\ pc = "done" => Returned = r.rec
        /\ (pc = "failed" /\ ~Blank(line)) => err = r.err

\* C17 as claimed, a line break being a carriage return or a line feed: the call
\* ends as it does for the first line alone, and firstLine has no line break.
C17_FirstLineOnly ==
    (Finished /\ message.str) =>
        /\ EndsAsFor(FirstLineAny(message.text))
        /\ \A k \in 1..Len(firstLine) : firstLine[k] \notin {"\r", "\n"}

\* C17, amended: a line break being a line feed or a carriage return followed by
\* a line feed, the call ends as it does for the first line alone (the same
\* record, or an error in both cases), and firstLine has no line feed; a
\* carriage return alone ends no line.
C17_FirstLineOnlyLF ==
    (Finished /\ message.str) =>
        /\ EndsAsFor(FirstLineLF(message.text))
        /\ \A k \in 1..Len(firstLine) : firstLine[k] # "\n"

C17_Witness ==
    /\ pc = "done"
    /\ input.post = <<"\r", "\n", "S", "T", "A", "T", "U", "S", ":", "N", "o", " ",
                      "S", "T", "A", "T", "U", "S", ":", "x">>
    /\ tok["STATUS"] = Some(<<"a", " ", "b">>)
    /\ firstLine = LineOf(input.key, input.toks)

\* the same message without what precedes the key and follows the last token
Bare == MessageOf([input EXCEPT !.pre = <<>>, !.post = <<>>])

\* the call has ended as the call for the bare line ends, firstLine included
EndsAsBare ==
    LET r == parseCommitMessage(Bare)
    IN  /\ err = r.err
        /\ pc = "done" => Returned = r.rec

HorizontalOnly(text) == \A k \in 1..Len(text) : text[k] \in {" ", "\t"}

OrderedNoise(pre) ==
    \E i \in 0..1 : \E j \in i..Len(pre) :
        /\ i = 1 => pre # <<>> /\ pre[1] = BOM
        /\ \A k \in (i + 1)..j : pre[k] = ZW
        /\ \A k \in (j + 1)..Len(pre) : IsWs(pre[k]) /\ pre[k] # "\n"

C19_EmptyInput ==
    (Finished /\ (~message.str \/ Blank(message.text))) =>
        /\ pc = "failed" /\ err = ErrEmpty
        /\ firstLine = <<>> /\ issue = Null
        /\ \A n \in Names : tok[n] = Null

C19_Witness ==
    /\ pc = "failed" /\ err = ErrEmpty
    /\ message.str
    /\ Len(message.text) >= 3
    /\ \E k \in 1..Len(message.text) : message.text[k] = "\n"

\* null, or a string that is not empty and neither starts nor ends in whitespace
NullOrTrimmed(v) ==
    v = Null \/ (v[1] # <<>> /\ ~IsWs(v[1][1]) /\ ~IsWs(v[1][Len(v[1])]))

\* C20: non-empty text fields. In every record returned status and comment are
\* each null or a non-empty string without leading or trailing whitespace, and
\* no call ends with 'STATUS value cannot be empty.'.
C20_TextFields ==
    /\ pc = "done" => NullOrTrimmed(Returned.status) /\ NullOrTrimmed(Returned.comment)
    /\ err # ErrStatusEmpty

C20_Witness ==
    /\ pc = "done"
    /\ Returned.status = Some(<<"a", " ", "b">>)
    /\ Returned.comment # Null
    /\ \E i \in Written("STATUS") : i < Len(input.toks)

----------------------------------------------------------------------------
(* The inline date of LOG, as written after the "@".                       *)

\* the LOG value written has an "@"
AtWritten ==
    /\ WrittenNonEmpty("LOG") # {}
    /\ LET v == Trim(WrittenValue("LOG")[1]) IN BeforeAt(v) # v

\* the text after the first "@" of the LOG value written, trimmed
AfterAt ==
    LET v == Trim(WrittenValue("LOG")[1])
    IN  Trim(SubSeq(v, Len(BeforeAt(v)) + 2, Len(v)))

\* C22: inline date is mandatory once "@" is written. On a line that reaches the
\* date validation with a LOG value that contains an "@", a record returned has
\* logDate equal to the text after the first "@", which is of the pattern
\* yyyy-mm-dd; and when that text is not of the pattern, empty included, the
\* parse fails with the format error 'date must be yyyy-mm-dd.'.
C22_InlineDateMandatory ==
    (ReachesDate /\ AtWritten) =>
        /\ pc = "done" => logDate = Some(AfterAt) /\ FixedWidth(AfterAt)
        /\ ~FixedWidth(AfterAt) => pc = "failed" /\ err = ErrDatePattern /\ err.format

----------------------------------------------------------------------------
(* Requests and responses.  A request sent is recorded with the response   *)
(* it received; res is Null when fetch rejected (a network error).         *)

Response(status, body) == [status |-> status, body |-> body]
Request(method, path, body, res) == [method |-> method, path |-> path, body |-> body, res |-> res]

\* Response.ok
Ok(res) == res.status >= 200 /\ res.status <= 299

\* String.prototype.includes
Includes(s, lit) == lit = <<>> \/ \E p \in 1..Len(s) : StartsAt(s, p, lit)

\* the parser is not running: its variables keep the values of a call not begun
ParserIdle ==
    /\ input = PlainInput(<<>>)
    /\ message = MessageOf(PlainInput(<<>>))
    /\ pc = "idle"
    /\ firstLine = <<>>
    /\ issue = Null
    /\ tok = [n \in Names |-> Null]
    /\ phase = Null
    /\ ready = Null
    /\ logHours = Null
    /\ logDate = Null
    /\ err = NoError

\* the most requests of one run that end in a network error or a response not ok
MaxFaults == 3

Faults(reqs) == Len(SelectSeq(reqs, LAMBDA q : q.res = Null \/ ~Ok(q.res[1])))

\* the outcome is within the faults of one run
Affordable(o) == (o = Null \/ ~Ok(o[1])) => Faults(sent) < MaxFaults

Returns(v) == [kind |-> "returned", value |-> v]
Throws(msg) == [kind |-> "threw", msg |-> msg]
Running == [kind |-> "none"]

----------------------------------------------------------------------------
(* logTempoWorklog (logTempo.js): the argument checks and the retry loop.  *)

tempoMaxRetries == 3

\* /already\s+exists|duplicate/i.test(text)
SaysDuplicate(text) ==
    LET low == Lowered(text)
    IN  \/ Includes(low, <<"d", "u", "p", "l", "i", "c", "a", "t", "e">>)
        \/ \E p \in 1..Len(low) :
              /\ StartsAt(low, p, <<"a", "l", "r", "e", "a", "d", "y">>)
              /\ WsRun(low, p + 7) >= 1
              /\ StartsAt(low, p + 7 + WsRun(low, p + 7), <<"e", "x", "i", "s", "t", "s">>)

\* /Category/i.test(text)
SaysCategory(text) == Includes(Lowered(text), <<"c", "a", "t", "e", "g", "o", "r", "y">>)

\* the statuses a server answers with, and the bodies of a 400
TempoStatuses == {201, 304, 400, 404, 409, 429, 503}
BadRequestBodies ==
    {<<"W", "o", "r", "k", "l", "o", "g", " ", "a", "l", "r", "e", "a", "d", "y", " ", " ", "e", "x", "i", "s", "t", "s">>, <<"D", "u", "p", "l", "i", "c", "a", "t", "e", " ", "e", "n", "t", "r", "y">>, <<"I", "n", "v", "a", "l", "i", "d", " ", "_", "C", "a", "t", "e", "g", "o", "r", "y", "_">>, <<"b", "a", "d", " ", "r", "e", "q", "u", "e", "s", "t">>}
TempoResponses ==
    {Response(s, <<>>) : s \in TempoStatuses \ {400}}
    \cup {Response(400, b) : b \in BadRequestBodies}
\* what one fetch ends with: a response, or a rejection (Null)
TempoOutcomes == {Some(r) : r \in TempoResponses} \cup {Null}
\* what the GET of adviseCategory ends with
AdviseOutcomes == {Some(Response(200, <<>>)), Null}

\* the author used: the argument, else the one of the environment
AuthorGiven(c) == c.authorAccountId \/ c.authorFromEnv

\* the error of the argument checks, or "" when they pass
TempoArgError(c) ==
    CASE ~c.tempoApiToken -> "Tempo token missing."
      [] ~c.issueKey /\ ~c.issueId -> "Tempo worklog requires issueKey or issueId."
      [] ~c.startDate -> "Tempo worklog requires startDate."
      [] ~c.timeSpentSeconds -> "Tempo worklog requires timeSpentSeconds."
      [] ~AuthorGiven(c) -> "Tempo worklog requires authorAccountId (set TEMPO_AUTHOR_ACCOUNT_ID)."
      [] OTHER -> ""

\* every client error is retried like a network error
TempoBranch_retry4xx(o) ==
    IF o = Null THEN "caught"
    ELSE LET res == o[1]
         IN  IF Ok(res) THEN "json"
             ELSE IF res.status = 409 THEN "conflict"
             ELSE IF res.status = 400
                  THEN IF SaysDuplicate(res.body) THEN "duplicate" ELSE "throw"
             ELSE IF res.status = 429 \/ res.status >= 500 THEN "continue"
             ELSE "caught"

\* what one pass of the loop body does with the outcome o of its fetch:
\*   "json", "conflict", "duplicate" : return that value
\*   "throw"                         : throw an error marked noRetry
\*   "continue"                      : the continue of the 429 / 5xx branch
\*   "caught"                        : an error not marked noRetry reaches the catch
TempoBranch(o) ==
    IF o = Null THEN "caught"
    ELSE LET res == o[1]
         IN  IF Ok(res) THEN "json"
             ELSE IF res.status = 409 THEN "conflict"
             ELSE IF res.status = 400
                  THEN IF SaysDuplicate(res.body) THEN "duplicate" ELSE "throw"
             ELSE IF res.status = 429 \/ res.status >= 500 THEN "continue"
             ELSE IF res.status >= 400 /\ res.status < 500 THEN "throw"
             ELSE "caught"

\* adviseCategory runs: a 400 whose body is no duplicate and names a category
Advises(o) ==
    /\ o # Null
    /\ ~Ok(o[1]) /\ o[1].status = 400
    /\ ~SaysDuplicate(o[1].body) /\ SaysCategory(o[1].body)

\* toSeconds(hours) is not 0: Math.round(hours * 3600) >= 1, for hours that are 0
\* or at least 1/4096
SecondsGiven(hours) == hours.ip >= 1 \/ \E k \in 1..Len(hours.fb) : k <= 12 /\ hours.fb[k] = 1

\* the arguments of logTempoWorklog: those of the call, or those logTempo makes of
\* what main passes (the issue id, the hours and date of the record, the token
\* and the author of the environment)
TempoArgs ==
    IF call.fn = "main"
    THEN [tempoApiToken |-> call.tempoToken, issueKey |-> FALSE, issueId |-> TRUE,
          startDate |-> TRUE, timeSpentSeconds |-> SecondsGiven(parsed[1].logHours[1]),
          authorAccountId |-> call.tempoAuthor, authorFromEnv |-> call.tempoAuthor]
    ELSE call

\* the checks of the arguments, before the loop
TempoCheckArgs ==
    /\ stage = "tempo_args"
    /\ IF TempoArgError(TempoArgs) # ""
       THEN /\ result' = Throws(TempoArgError(TempoArgs))
            /\ stage' = "tempo_end"
            /\ UNCHANGED attempt
       ELSE /\ attempt' = 1
            /\ stage' = "tempo_loop"
            /\ UNCHANGED result
    /\ UNCHANGED <<call, sent, parsed, trail, fetched, current, match, output, exitCode>>
    /\ UNCHANGED parserVars

\* one pass of the loop: the POST, what is done with its outcome, and attempt++
\* with the loop test when the pass ends in a continue
TempoAttempt ==
    /\ stage = "tempo_loop"
    /\ attempt <= tempoMaxRetries
    /\ \E o \in {x \in TempoOutcomes : Affordable(x)}, g \in AdviseOutcomes :
         LET post == Request("POST", "/worklogs", "worklog", o)
             get == Request("GET", "/work-attributes", "", g)
             b == TempoBranch(o)
         IN  /\ sent' = IF Advises(o) THEN sent \o <<post, get>> ELSE Append(sent, post)
             /\ Advises(o) \/ g = Null
             /\ CASE b \in {"json", "conflict", "duplicate"} ->
                       /\ result' = Returns(b)
                       /\ stage' = "tempo_end"
                       /\ UNCHANGED attempt
                  [] b = "throw" ->
                       /\ result' = Throws("[Tempo] request refused")
                       /\ stage' = "tempo_end"
                       /\ UNCHANGED attempt
                  [] b = "continue" ->
                       /\ attempt' = attempt + 1
                       /\ IF attempt + 1 <= tempoMaxRetries
                          THEN stage' = "tempo_loop" /\ UNCHANGED result
                          ELSE stage' = "tempo_end" /\ result' = Returns("undefined")
                  [] b = "caught" ->
                       IF attempt < tempoMaxRetries
                       THEN /\ attempt' = attempt + 1
                            /\ stage' = "tempo_loop"
                            /\ UNCHANGED result
                       ELSE /\ result' = Throws("[Tempo] Network error after 3 attempts")
                            /\ stage' = "tempo_end"
                            /\ UNCHANGED attempt
    /\ UNCHANGED <<call, parsed, trail, fetched, current, match, output, exitCode>>
    /\ UNCHANGED parserVars

\* the calls of logTempoWorklog: each argument given or not
TempoCalls ==
    [fn : {"logTempoWorklog"}, tempoApiToken : BOOLEAN, issueKey : BOOLEAN, issueId : BOOLEAN,
     startDate : BOOLEAN, timeSpentSeconds : BOOLEAN, authorAccountId : BOOLEAN,
     authorFromEnv : BOOLEAN]

InitTempo ==
    /\ ParserIdle
    /\ call \in TempoCalls
    /\ stage = "tempo_args"
    /\ attempt = 0
    /\ sent = <<>>
    /\ parsed = Null
    /\ trail = <<>>
    /\ fetched = Null
    /\ current = Null
    /\ match = Null
    /\ result = Running
    /\ output = <<>>
    /\ exitCode = 0

NextTempo ==
    \/ TempoCheckArgs
    \/ TempoAttempt

SpecTempo == InitTempo /\ [][NextTempo]_vars

----------------------------------------------------------------------------
(* The worklog requests of one call, as the properties speak of them.      *)

\* the POSTs of the worklog, in the order sent
WorklogPosts == SelectSeq(sent, LAMBDA q : q.method = "POST" /\ q.path = "/worklogs")

\* outcomes of a POST, by what the server said
Is2xx(o) == o # Null /\ o[1].status \in 200..299
Is409(o) == o # Null /\ o[1].status = 409
IsDuplicate400(o) == o # Null /\ o[1].status = 400 /\ SaysDuplicate(o[1].body)
IsOther400(o) == o # Null /\ o[1].status = 400 /\ ~SaysDuplicate(o[1].body)
IsOther4xx(o) == o # Null /\ o[1].status \in 400..499 /\ o[1].status \notin {400, 409, 429}
Is429(o) == o # Null /\ o[1].status = 429
Is5xx(o) == o # Null /\ o[1].status \in 500..599
IsNetworkError(o) == o = Null
\* a response that is not ok and has a status below 400
IsBelow400(o) == o # Null /\ o[1].status < 400 /\ o[1].status \notin 200..299

TempoEnded == call.fn = "logTempoWorklog" /\ stage = "tempo_end"

\* what the call does at its end with each final answer
TempoVerdicts ==
    (TempoEnded /\ WorklogPosts # <<>>) =>
        LET o == WorklogPosts[Len(WorklogPosts)].res
        IN  /\ Is2xx(o) => result = Returns("json")
            /\ Is409(o) => result = Returns("conflict")
            /\ IsDuplicate400(o) => result = Returns("duplicate")
            /\ (IsOther400(o) \/ IsOther4xx(o)) => result.kind = "threw"

\* C23 as stated: bounded Tempo retries. One call of logTempoWorklog sends at most
\* 3 POSTs of the worklog; a POST is followed by another only if it ended in a
\* 429, a 5xx or a network error; a 409 and a duplicate 400 are returned as
\* success and other 400 / 4xx are thrown.
C23_BoundedTempoRetries ==
    /\ Len(WorklogPosts) <= 3
    /\ \A i \in 1..(Len(WorklogPosts) - 1) :
          LET o == WorklogPosts[i].res IN Is429(o) \/ Is5xx(o) \/ IsNetworkError(o)
    /\ TempoVerdicts

\* C23, amended: as above, where a POST is followed by another only if it ended
\* in a 429, a 5xx, a network error, or a response that is not ok with a status
\* below 400.
C23_BoundedTempoRetriesBelow400 ==
    /\ Len(WorklogPosts) <= 3
    /\ \A i \in 1..(Len(WorklogPosts) - 1) :
          LET o == WorklogPosts[i].res
          IN  Is429(o) \/ Is5xx(o) \/ IsNetworkError(o) \/ IsBelow400(o)
    /\ TempoVerdicts

C23_Witness ==
    /\ TempoEnded
    /\ Len(WorklogPosts) = 3
    /\ Is5xx(WorklogPosts[1].res)
    /\ IsNetworkError(WorklogPosts[2].res)
    /\ Is409(WorklogPosts[3].res)
    /\ result = Returns("conflict")

\* C24: no silent Tempo failure. A call of logTempoWorklog that has sent requests
\* returns normally only if one of its POSTs received a 2xx, a 409 or a duplicate
\* 400; in every other case it ends by throwing.
C24_NoSilentTempoFailure ==
    (TempoEnded /\ WorklogPosts # <<>>) =>
        IF \E i \in 1..Len(WorklogPosts) :
              LET o == WorklogPosts[i].res IN Is2xx(o) \/ Is409(o) \/ IsDuplicate400(o)
        THEN result.kind = "returned"
        ELSE result.kind = "threw"

----------------------------------------------------------------------------
(* updateJiraStatus and its retrying jiraFetch (updateJira.js).            *)

jiraMaxRetries == 2

\* export const statusMap, as pairs of token and board status
statusMap ==
    {<<<<"A", "n", "a", "l", "y", "z", "e">>, <<"A", "n", "a", "l", "y", "z", "e", " ", "a", "n", "d", " ", "S", "i", "z", "e">>>>,
     <<<<"A", "n", "a", "l", "y", "z", "e", "A", "n", "d", "S", "i", "z", "e">>, <<"A", "n", "a", "l", "y", "z", "e", " ", "a", "n", "d", " ", "S", "i", "z", "e">>>>,
     <<<<"B", "u", "i", "l", "d">>, <<"B", "u", "i", "l", "d">>>>,
     <<<<"V", "a", "l", "i", "d", "a", "t", "e", "T", "e", "s", "t">>, <<"V", "a", "l", "i", "d", "a", "t", "e", " ", "T", "e", "s", "t">>>>,
     <<<<"E", "n", "d", "T", "o", "E", "n", "d", "T", "e", "s", "t">>, <<"E", "n", "d", " ", "t", "o", " ", "E", "n", "d", " ", "T", "e", "s", "t", "i", "n", "g">>>>,
     <<<<"R", "e", "g", "r", "e", "s", "s", "i", "o", "n", "T", "e", "s", "t">>, <<"R", "e", "g", "r", "e", "s", "s", "i", "o", "n", " ", "T", "e", "s", "t", "i", "n", "g">>>>,
     <<<<"C", "e", "r", "t", "i", "f", "y", "R", "e", "l", "e", "a", "s", "e">>, <<"C", "e", "r", "t", "i", "f", "y", " ", "a", "n", "d", " ", "R", "e", "l", "e", "a", "s", "e">>>>}

\* const targetStatus = statusMap[desired] || desired, with desired the token trimmed
TargetStatus(statusToken) ==
    LET desired == Trim(statusToken)
    IN  IF \E e \in statusMap : e[1] = desired
        THEN (CHOOSE e \in statusMap : e[1] = desired)[2]
        ELSE desired

\* a transition of the issue, as Jira lists it; to is the name of the target status
Transition(id, name, to) == [id |-> id, name |-> name, to |-> to]

\* Array.prototype.find over the indexes in hits, as an optional value
FirstOf(ts, hits) == IF hits = {} THEN Null ELSE Some(ts[Min(hits)])

\* the transition looked for first, by the name of the target status
ByTarget(ts, lower) == FirstOf(ts, {i \in 1..Len(ts) : Lowered(Trim(ts[i].to)) = lower})
\* the transition looked for next, by its own name
ByName(ts, lower) == FirstOf(ts, {i \in 1..Len(ts) : Lowered(Trim(ts[i].name)) = lower})

\* the transition by its own name comes first
FindTransition_nameFirst(ts, lower) ==
    IF ByName(ts, lower) # Null THEN ByName(ts, lower) ELSE ByTarget(ts, lower)

\* const match
FindTransition(ts, lower) ==
    IF ByTarget(ts, lower) # Null THEN ByTarget(ts, lower) ELSE ByName(ts, lower)

\* a value is given: neither undefined nor the empty string
Given(v) == v # Null /\ v[1] # <<>>

\* the issue key is not looked at
JiraGuard_noIssueKey(c) ==
    IF ~c.baseUrl \/ ~c.email \/ ~c.token THEN "Jira credentials missing."
    ELSE IF ~Given(c.statusToken) THEN "skipped"
    ELSE ""

\* the checks at the head of updateJiraStatus: the error thrown, "skipped", or ""
JiraGuard(c) ==
    IF ~c.baseUrl \/ ~c.email \/ ~c.token THEN "Jira credentials missing."
    ELSE IF ~c.issueKey THEN "issueKey missing."
    ELSE IF ~Given(c.statusToken) THEN "skipped"
    ELSE ""

\* a response not ok is retried whatever its status
JiraRetries_anyStatus(res, n) == ~Ok(res) /\ n < jiraMaxRetries

\* jiraFetch waits and continues: a 429 or 5xx, with fewer than maxRetries retries made
JiraRetries(res, n) == (res.status = 429 \/ res.status >= 500) /\ n < jiraMaxRetries

\* the three calls of jiraFetch, and where each returns to
JiraFetchStages == {"jira_status", "jira_transitions", "jira_post"}
JiraBack(s) ==
    CASE s = "jira_status" -> "jira_status_back"
      [] s = "jira_transitions" -> "jira_transitions_back"
      [] s = "jira_post" -> "jira_post_back"

JiraMethod(s) == IF s = "jira_post" THEN "POST" ELSE "GET"
JiraPath(s) == IF s = "jira_status" THEN "/issue?fields=status" ELSE "/issue/transitions"

\* the transitions a server may list
T_Build == Transition("11", <<"S", "t", "a", "r", "t", " ", "B", "u", "i", "l", "d">>, <<"B", "u", "i", "l", "d">>)
T_Validate == Transition("21", <<"S", "e", "n", "d", " ", "t", "o", " ", "t", "e", "s", "t">>, <<" ", "V", "a", "l", "i", "d", "a", "t", "e", " ", "T", "e", "s", "t", " ">>)
T_Named == Transition("31", <<"v", "a", "l", "i", "d", "a", "t", "e", " ", "T", "E", "S", "T">>, <<"D", "o", "n", "e">>)
T_Bare == Transition("41", <<"C", "l", "o", "s", "e">>, <<>>)
Transitions == {T_Build, T_Validate, T_Named, T_Bare}
TransitionLists ==
    {<<>>} \cup {<<t>> : t \in Transitions}
    \cup {<<x[1], x[2]>> : x \in {y \in Transitions \X Transitions : y[1] # y[2]}}

JiraStatuses == {200, 404, 429, 503}
\* what one fetch of the stage ends with: a response, or a rejection (Null)
JiraOutcomes(s) ==
    {Some(Response(st, <<>>)) : st \in JiraStatuses \ {200}}
    \cup (IF s = "jira_transitions"
          THEN {Some(Response(200, ts)) : ts \in TransitionLists}
          ELSE {Some(Response(200, <<>>))})
    \cup {Null}

\* the checks of the arguments, and the target status
JiraGuards ==
    /\ stage = "jira_guards"
    /\ IF JiraGuard(call) = ""
       THEN /\ stage' = "jira_status"
            /\ attempt' = 0
            /\ UNCHANGED result
       ELSE /\ stage' = "jira_end"
            /\ result' = IF JiraGuard(call) = "skipped"
                         THEN Returns("skipped")
                         ELSE Throws(JiraGuard(call))
            /\ UNCHANGED attempt
    /\ UNCHANGED <<call, sent, parsed, trail, fetched, current, match, output, exitCode>>
    /\ UNCHANGED parserVars

\* one pass of the loop of jiraFetch: the request, and the return, the wait and
\* continue (with attempt++ and the loop test), or the rejection of fetch
JiraFetchAttempt ==
    /\ stage \in JiraFetchStages
    /\ attempt <= jiraMaxRetries
    /\ \E o \in JiraOutcomes(stage) :
         /\ Affordable(o)
         /\ sent' = Append(sent, Request(JiraMethod(stage), JiraPath(stage),
                                         IF stage = "jira_post" THEN match[1].id ELSE "", o))
         /\ IF o = Null
            THEN /\ result' = Throws("fetch failed")
                 /\ stage' = "jira_end"
                 /\ UNCHANGED <<attempt, fetched>>
            ELSE IF JiraRetries(o[1], attempt)
            THEN /\ attempt' = attempt + 1
                 /\ IF attempt + 1 <= jiraMaxRetries
                    THEN UNCHANGED <<stage, fetched>>
                    ELSE stage' = JiraBack(stage) /\ fetched' = Null
                 /\ UNCHANGED result
            ELSE /\ fetched' = o
                 /\ stage' = JiraBack(stage)
                 /\ UNCHANGED <<attempt, result>>
    /\ UNCHANGED <<call, parsed, trail, current, match, output, exitCode>>
    /\ UNCHANGED parserVars

\* 1) the current status is read for the log only
JiraStatusRead ==
    /\ stage = "jira_status_back"
    /\ stage' = "jira_transitions"
    /\ attempt' = 0
    /\ UNCHANGED <<call, sent, parsed, trail, fetched, current, match, result, output, exitCode>>
    /\ UNCHANGED parserVars

\* 2) the transitions are read and one is chosen; nothing is posted in a dry run
JiraChooseTransition ==
    /\ stage = "jira_transitions_back"
    /\ IF fetched = Null \/ ~Ok(fetched[1])
       THEN /\ result' = Throws("[Jira] transitions fetch failed")
            /\ stage' = "jira_end"
            /\ UNCHANGED <<attempt, match>>
       ELSE LET m == FindTransition(fetched[1].body,
                                    Lowered(TargetStatus(call.statusToken[1])))
            IN  /\ match' = m
                /\ IF m = Null
                   THEN /\ result' = Returns("no-transition")
                        /\ stage' = "jira_end"
                        /\ UNCHANGED attempt
                   ELSE IF call.dryRun
                   THEN /\ result' = Returns("dryRun")
                        /\ stage' = "jira_end"
                        /\ UNCHANGED attempt
                   ELSE /\ stage' = "jira_post"
                        /\ attempt' = 0
                        /\ UNCHANGED result
    /\ UNCHANGED <<call, sent, parsed, trail, fetched, current, output, exitCode>>
    /\ UNCHANGED parserVars

\* 3) the transition was posted
JiraTransitionPosted ==
    /\ stage = "jira_post_back"
    /\ result' = IF fetched = Null \/ ~Ok(fetched[1])
                 THEN Throws("[Jira] transition POST failed")
                 ELSE Returns("ok")
    /\ stage' = "jira_end"
    /\ UNCHANGED <<call, attempt, sent, parsed, trail, fetched, current, match, output, exitCode>>
    /\ UNCHANGED parserVars

\* the status tokens of a call: missing, empty, blank, mapped, direct, unknown
StatusTokens ==
    {Null, Some(<<>>), Some(<<" ", " ", " ">>), Some(<<"V", "a", "l", "i", "d", "a", "t", "e", "T", "e", "s", "t">>), Some(<<" ", "B", "u", "i", "l", "d", " ">>),
     Some(<<"v", "a", "l", "i", "d", "a", "t", "e", " ", "t", "e", "s", "t">>), Some(<<"R", "e", "l", "e", "a", "s", "e", "d">>)}

JiraCalls ==
    [fn : {"updateJiraStatus"}, baseUrl : BOOLEAN, email : BOOLEAN, token : BOOLEAN,
     issueKey : BOOLEAN, statusToken : StatusTokens, dryRun : BOOLEAN]

InitJira ==
    /\ ParserIdle
    /\ call \in JiraCalls
    /\ stage = "jira_guards"
    /\ attempt = 0
    /\ sent = <<>>
    /\ parsed = Null
    /\ trail = <<>>
    /\ fetched = Null
    /\ current = Null
    /\ match = Null
    /\ result = Running
    /\ output = <<>>
    /\ exitCode = 0

NextJira ==
    \/ JiraGuards
    \/ JiraFetchAttempt
    \/ JiraStatusRead
    \/ JiraChooseTransition
    \/ JiraTransitionPosted

SpecJira == InitJira /\ [][NextJira]_vars

----------------------------------------------------------------------------
(* The requests of updateJiraStatus, as the properties speak of them.      *)

RequestsOf(method, path) == SelectSeq(sent, LAMBDA q : q.method = method /\ q.path = path)

\* the calls of jiraFetch made by one run, each known by its method and path
FetchCalls ==
    {<<"GET", "/issue?fields=status">>, <<"GET", "/issue/transitions">>,
     <<"POST", "/issue/transitions">>}

IsRetryable(o) == Is429(o) \/ Is5xx(o)

JiraReturned == stage \in {"jira_status_back", "jira_transitions_back", "jira_post_back"}
JiraEnded == call.fn = "updateJiraStatus" /\ stage = "jira_end"

\* C25: bounded Jira retries. One call of the retrying jiraFetch sends at most 3
\* requests; a request is followed by another of the same call only if it was
\* answered 429 or 5xx and fewer than 2 retries had been made; a response not ok
\* of any other status ends the call with no retry; and whenever the call returns
\* it returns the last response received, never undefined.
C25_BoundedJiraRetries ==
    /\ \A k \in FetchCalls :
          LET rs == RequestsOf(k[1], k[2])
          IN  /\ Len(rs) <= 3
              /\ \A i \in 1..(Len(rs) - 1) : IsRetryable(rs[i].res) /\ i - 1 < 2
              /\ \A i \in 1..Len(rs) :
                    (rs[i].res # Null /\ ~Is2xx(rs[i].res) /\ ~IsRetryable(rs[i].res))
                        => i = Len(rs)
    /\ JiraReturned => fetched # Null /\ fetched = sent[Len(sent)].res

C25_Witness ==
    /\ stage = "jira_post_back"
    /\ LET rs == RequestsOf("POST", "/issue/transitions")
       IN  /\ Len(rs) = 3
           /\ Is429(rs[1].res) /\ Is5xx(rs[2].res) /\ Is5xx(rs[3].res)
    /\ fetched = Some(Response(503, <<>>))

\* the transitions listed to the run: the body of the GET of the transitions that
\* succeeded, or Null
Listed ==
    LET ok == SelectSeq(RequestsOf("GET", "/issue/transitions"), LAMBDA q : Is2xx(q.res))
    IN  IF ok = <<>> THEN Null ELSE Some(ok[1].res[1].body)

\* a name equals the target status wanted, both trimmed and without regard to case
SameStatus(name, wanted) == Lowered(Trim(name)) = Lowered(Trim(wanted))

\* the transition the properties choose from a list for a status token: the first
\* whose target status has the mapped name, else the first whose own name has it
Chosen(ts, statusToken) ==
    LET wanted == TargetStatus(statusToken)
        byTo == {i \in 1..Len(ts) : SameStatus(ts[i].to, wanted)}
        byName == {i \in 1..Len(ts) : SameStatus(ts[i].name, wanted)}
    IN  IF byTo # {} THEN Some(ts[Min(byTo)])
        ELSE IF byName # {} THEN Some(ts[Min(byName)])
        ELSE Null

TransitionPosts == RequestsOf("POST", "/issue/transitions")

\* C26: the transition POST of updateJiraStatus. A POST to /transitions is sent
\* only if dryRun is false, the GET of the transitions succeeded, and a transition
\* is chosen for the mapped target status; the id posted is the id of that
\* transition, a match of the target status being preferred to a match of the
\* transition name. With dryRun true no POST is sent; with no match the call
\* returns skipped, having posted nothing.
C26_TransitionPost ==
    call.fn = "updateJiraStatus" =>
        /\ TransitionPosts # <<>> =>
              /\ ~call.dryRun
              /\ Listed # Null
              /\ Chosen(Listed[1], call.statusToken[1]) # Null
              /\ \A i \in 1..Len(TransitionPosts) :
                    TransitionPosts[i].body = Chosen(Listed[1], call.statusToken[1])[1].id
        /\ call.dryRun => TransitionPosts = <<>>
        /\ (JiraEnded /\ Listed # Null /\ Chosen(Listed[1], call.statusToken[1]) = Null) =>
              result = Returns("no-transition") /\ TransitionPosts = <<>>

C26_Witness ==
    /\ JiraEnded
    /\ call.statusToken = Some(<<"V", "a", "l", "i", "d", "a", "t", "e", "T", "e", "s", "t">>)
    /\ Listed = Some(<<T_Named, T_Validate>>)
    /\ Len(TransitionPosts) = 1
    /\ TransitionPosts[1].body = "21"
    /\ result = Returns("ok")

\* C27: the guards of updateJiraStatus run before any I/O. A call without baseUrl,
\* email or token, or without issueKey, throws; a call with these and without a
\* status token returns skipped; in each case no request was sent.
C27_GuardsBeforeIO ==
    JiraEnded =>
        /\ (~call.baseUrl \/ ~call.email \/ ~call.token \/ ~call.issueKey) =>
              result.kind = "threw" /\ sent = <<>>
        /\ (call.baseUrl /\ call.email /\ call.token /\ call.issueKey
                /\ ~Given(call.statusToken)) =>
              result = Returns("skipped") /\ sent = <<>>

C27_Witness ==
    /\ JiraEnded
    /\ call.baseUrl /\ call.email /\ call.token
    /\ ~call.issueKey
    /\ Given(call.statusToken)
    /\ result = Throws("issueKey missing.")
    /\ sent = <<>>

----------------------------------------------------------------------------
(* main (index.js): the step output, the parse, and the four steps Ready,  *)
(* status, Tempo and comment, each in its own try.                         *)

\* function firstLineOf
firstLineOf(msg) == Trim(RawFirst(msg))

\* the test without the i flag
IsMerge_caseSensitive(line) ==
    /\ StartsAt(line, 1, <<"M", "e", "r", "g", "e">>)
    /\ (Len(line) = 5 \/ ~IsWord(line[6]))

\* /^Merge\b/i.test(firstLine)
IsMerge(line) ==
    /\ StartsAt(Lowered(line), 1, <<"m", "e", "r", "g", "e">>)
    /\ (Len(line) = 5 \/ ~IsWord(line[6]))

\* const hasStatus, hasLog, hasComment, and the test of the Ready step
hasStatus(p) == p.status # Null /\ p.status[1] # <<>>
hasLog_never(p) == FALSE
hasLog(p) == p.logHours # Null
hasComment(p) == p.comment # Null /\ p.comment[1] # <<>>
hasReady(p) == p.ready # Null

\* the jiraFetch of index.js sends one request and throws when fetch rejects or
\* the response is not ok
JiraFetchThrows(o) == o = Null \/ ~Ok(o[1])

\* what getIssueMinimal reads: the id of the issue, if any, and its status name
IssueBody(id, status) == [id |-> id, status |-> status]

\* const best: the first transition whose target status is the status of the
\* record, else the first whose name includes it
MainFind(ts, status) ==
    LET lower == Lowered(Trim(status))
        byTo == FirstOf(ts, {i \in 1..Len(ts) : Lowered(Trim(ts[i].to)) = lower})
    IN  IF byTo # Null THEN byTo
        ELSE FirstOf(ts, {i \in 1..Len(ts) : Includes(Lowered(ts[i].name), lower)})

\* the trigger is set whatever the status the issue came from
PrTrigger_anyFrom(cur, best) == Lowered(Trim(best.to)) = <<"v", "a", "l", "i", "d", "a", "t", "e", " ", "t", "e", "s", "t">>

\* from === "build" && goingTo === "validate test"
PrTrigger(cur, best) ==
    /\ Lowered(Trim(cur.status)) = <<"b", "u", "i", "l", "d">>
    /\ Lowered(Trim(best.to)) = <<"v", "a", "l", "i", "d", "a", "t", "e", " ", "t", "e", "s", "t">>

\* what the requests of main end with
MainFailures == {Some(Response(404, <<>>)), Null}
PlainOutcomes == {Some(Response(200, <<>>))} \cup MainFailures
IssueBodies ==
    {IssueBody(Some("10001"), <<"B", "u", "i", "l", "d">>), IssueBody(Some("10001"), <<" ", "B", "U", "I", "L", "D", " ">>),
     IssueBody(Some("10001"), <<"A", "n", "a", "l", "y", "z", "e">>), IssueBody(Null, <<"B", "u", "i", "l", "d">>)}
IssueOutcomes == {Some(Response(200, b)) : b \in IssueBodies} \cup MainFailures
\* the same request in the Tempo step, where only the id is read
IdOutcomes ==
    {Some(Response(200, b)) : b \in {c \in IssueBodies : c.status = <<"B", "u", "i", "l", "d">>}}
    \cup MainFailures
MainTransitionLists ==
    {<<>>, <<T_Validate>>, <<T_Build>>, <<T_Named, T_Validate>>, <<T_Bare, T_Named>>}
TransitionOutcomes == {Some(Response(200, ts)) : ts \in MainTransitionLists} \cup MainFailures

\* the module is loaded: the default of the step output is written
Load ==
    /\ stage = "load"
    /\ output' = Append(output, "no")
    /\ stage' = "main_start"
    /\ UNCHANGED <<call, attempt, sent, parsed, trail, fetched, current, match, result, exitCode>>
    /\ UNCHANGED parserVars

\* the head of main: the first line, the merge test, and the call of
\* parseCommitMessage on the first line
MainStart ==
    /\ stage = "main_start"
    /\ LET line == firstLineOf(call.commitMessage)
       IN  IF line = <<>>
           THEN /\ result' = Throws("Empty COMMIT_MESSAGE.")
                /\ stage' = "main_rejected"
                /\ UNCHANGED <<message, pc>>
           ELSE IF IsMerge(line)
           THEN /\ result' = Returns("merge")
                /\ stage' = "exit"
                /\ UNCHANGED <<message, pc>>
           ELSE /\ message' = [str |-> TRUE, text |-> line]
                /\ pc' = "start"
                /\ stage' = "parsing"
                /\ UNCHANGED result
    /\ UNCHANGED <<call, attempt, sent, parsed, trail, fetched, current, match, output, exitCode>>
    /\ UNCHANGED <<input, firstLine, issue, tok, phase, ready, logHours, logDate, err>>

\* an error of the parser is taken for a return
ParseThrew_never == FALSE

\* parseCommitMessage threw: nothing of main after the call runs
ParseThrew == pc = "failed"

\* parseCommitMessage has thrown or returned: the error goes up, or the record is
\* kept and its issue key tested
MainParsed ==
    /\ stage = "parsing"
    /\ pc \in {"done", "failed"}
    /\ IF ParseThrew
       THEN /\ result' = Throws(err.msg)
            /\ stage' = "main_rejected"
            /\ UNCHANGED parsed
       ELSE IF Returned.issueKey = Null
       THEN /\ result' = Throws("Commit must start with ISSUE-KEY (e.g., PEB-4).")
            /\ stage' = "main_rejected"
            /\ UNCHANGED parsed
       ELSE /\ parsed' = Some(Returned)
            /\ stage' = "ready_step"
            /\ UNCHANGED result
    /\ UNCHANGED <<call, attempt, sent, trail, fetched, current, match, output, exitCode>>
    /\ UNCHANGED parserVars

\* main().catch: the failure exit code
MainCatch ==
    /\ stage = "main_rejected"
    /\ exitCode' = 1
    /\ stage' = "exit"
    /\ UNCHANGED <<call, attempt, sent, parsed, trail, fetched, current, match, result, output>>
    /\ UNCHANGED parserVars

\* 0) Ready: the test of the step
MainReady ==
    /\ stage = "ready_step"
    /\ IF ~hasReady(parsed[1])
       THEN stage' = "status_step" /\ UNCHANGED trail
       ELSE stage' = "ready_args" /\ trail' = Append(trail, "ready")
    /\ UNCHANGED <<call, attempt, sent, parsed, fetched, current, match, result, output, exitCode>>
    /\ UNCHANGED parserVars

\* what updateReadyField reads: the Ready part of env and its argument
\* readyValueBool, which main makes of the record
ReadyArgs ==
    IF call.fn = "main"
    THEN [readyFieldId |-> call.readyFieldId, readyFieldType |-> call.readyFieldType,
          readyYesValue |-> "Yes", readyValueBool |-> parsed[1].ready[1]]
    ELSE call

\* const label
ReadyLabel(c) ==
    IF c.readyValueBool THEN (IF c.readyYesValue = "" THEN "Yes" ELSE c.readyYesValue) ELSE "No"

\* one request body: the field as a string, as { value } or as [{ value }]
Body(shape, label) == [shape |-> shape, label |-> label]

\* const fallback
fallback(label) == <<Body("string", label), Body("option", label), Body("array", label)>>

\* the keys of the object bodiesByType, and the keys every object inherits that a
\* trimmed lower-case string can spell
OwnTypes == {"string", "option", "array"}
InheritedKeys == {"constructor", "__proto__"}

\* const candidateBodies, where bodiesByType[env.readyFieldType] is an array or
\* undefined
candidateBodies(type, label) ==
    LET typed == IF type \in OwnTypes THEN <<Body(type, label)>> ELSE <<>>
    IN  typed \o SelectSeq(fallback(label), LAMBDA b1 : \A k \in 1..Len(typed) : typed[k] # b1)

\* the head of updateReadyField: nothing without the field id; typed.concat
\* throws when the lookup in bodiesByType gives an inherited property
ReadyStart ==
    /\ stage = "ready_args"
    /\ IF ~ReadyArgs.readyFieldId
       THEN /\ result' = Returns("undefined")
            /\ stage' = "ready_end"
            /\ UNCHANGED attempt
       ELSE IF ReadyArgs.readyFieldType \in InheritedKeys
       THEN /\ result' = Throws("typed.concat is not a function")
            /\ stage' = "ready_end"
            /\ UNCHANGED attempt
       ELSE /\ attempt' = 1
            /\ stage' = "ready_put"
            /\ UNCHANGED result
    /\ UNCHANGED <<call, sent, parsed, trail, fetched, current, match, output, exitCode>>
    /\ UNCHANGED parserVars

\* the loop of updateReadyField over its candidate bodies: one PUT, a return when
\* it is ok, the next body when it is not, the warning after the last
ReadyPut ==
    /\ stage = "ready_put"
    /\ LET bodies == candidateBodies(ReadyArgs.readyFieldType, ReadyLabel(ReadyArgs))
       IN  \E o \in PlainOutcomes :
             /\ Affordable(o)
             /\ sent' = Append(sent, Request("PUT", "/issue", bodies[attempt], o))
             /\ IF JiraFetchThrows(o) /\ attempt < Len(bodies)
                THEN /\ attempt' = attempt + 1
                     /\ UNCHANGED <<stage, result>>
                ELSE /\ result' = Returns("undefined")
                     /\ stage' = "ready_end"
                     /\ UNCHANGED attempt
    /\ UNCHANGED <<call, parsed, trail, fetched, current, match, output, exitCode>>
    /\ UNCHANGED parserVars

\* updateReadyField has returned or thrown: either way main goes on
MainReadyEnd ==
    /\ call.fn = "main"
    /\ stage = "ready_end"
    /\ stage' = "status_step"
    /\ UNCHANGED <<call, attempt, sent, parsed, trail, fetched, current, match, result, output,
                   exitCode>>
    /\ UNCHANGED parserVars

\* 1) Status change: the test of the step and getIssueMinimal
MainStatus ==
    /\ stage = "status_step"
    /\ IF ~hasStatus(parsed[1])
       THEN /\ stage' = "tempo_step"
            /\ UNCHANGED <<trail, sent, current>>
       ELSE /\ trail' = Append(trail, "status")
            /\ \E o \in IssueOutcomes :
                 /\ Affordable(o)
                 /\ sent' = Append(sent, Request("GET", "/issue?fields=status", "", o))
                 /\ IF JiraFetchThrows(o)
                    THEN stage' = "tempo_step" /\ UNCHANGED current
                    ELSE stage' = "status_transitions" /\ current' = Some(o[1].body)
    /\ UNCHANGED <<call, attempt, parsed, fetched, match, result, output, exitCode>>
    /\ UNCHANGED parserVars

\* getTransitions and the choice of the transition; nothing more in a dry run
StatusTransitions ==
    /\ stage = "status_transitions"
    /\ \E o \in TransitionOutcomes :
         /\ Affordable(o)
         /\ sent' = Append(sent, Request("GET", "/issue/transitions", "", o))
         /\ IF JiraFetchThrows(o)
            THEN stage' = "tempo_step" /\ UNCHANGED match
            ELSE LET best == MainFind(o[1].body, parsed[1].status[1])
                 IN  /\ match' = best
                     /\ stage' = IF best = Null \/ call.dryRun
                                 THEN "tempo_step"
                                 ELSE "status_apply"
    /\ UNCHANGED <<call, attempt, parsed, trail, fetched, current, result, output, exitCode>>
    /\ UNCHANGED parserVars

\* applyTransition, and the trigger of the pull request
StatusApply ==
    /\ stage = "status_apply"
    /\ \E o \in PlainOutcomes :
         /\ Affordable(o)
         /\ sent' = Append(sent, Request("POST", "/issue/transitions", match[1].id, o))
         /\ output' = IF ~JiraFetchThrows(o) /\ PrTrigger(current[1], match[1])
                      THEN Append(output, "yes")
                      ELSE output
    /\ stage' = "tempo_step"
    /\ UNCHANGED <<call, attempt, parsed, trail, fetched, current, match, result, exitCode>>
    /\ UNCHANGED parserVars

\* 2) Tempo: the test of the step, getIssueMinimal for the id, and the head of
\* logTempo
MainTempo ==
    /\ stage = "tempo_step"
    /\ IF ~hasLog(parsed[1])
       THEN /\ stage' = "comment_step"
            /\ UNCHANGED <<trail, sent>>
       ELSE /\ trail' = Append(trail, "tempo")
            /\ \E o \in IdOutcomes :
                 /\ Affordable(o)
                 /\ sent' = Append(sent, Request("GET", "/issue?fields=status", "", o))
                 /\ stage' = IF JiraFetchThrows(o) \/ o[1].body.id = Null
                                \/ ~DblPositive(parsed[1].logHours[1])
                             THEN "comment_step"
                             ELSE "tempo_args"
    /\ UNCHANGED <<call, attempt, parsed, fetched, current, match, result, output, exitCode>>
    /\ UNCHANGED parserVars

\* logTempo has returned or thrown: either way main goes on
MainTempoEnd ==
    /\ call.fn = "main"
    /\ stage = "tempo_end"
    /\ stage' = "comment_step"
    /\ UNCHANGED <<call, attempt, sent, parsed, trail, fetched, current, match, result, output,
                   exitCode>>
    /\ UNCHANGED parserVars

\* 3) Jira comment: the test of the step and addJiraCommentADF
MainComment ==
    /\ stage = "comment_step"
    /\ IF ~hasComment(parsed[1])
       THEN UNCHANGED <<trail, sent>>
       ELSE /\ trail' = Append(trail, "comment")
            /\ \E o \in PlainOutcomes :
                 /\ Affordable(o)
                 /\ sent' = Append(sent, Request("POST", "/issue/comment", "comment", o))
    /\ stage' = "main_return"
    /\ UNCHANGED <<call, attempt, parsed, fetched, current, match, result, output, exitCode>>
    /\ UNCHANGED parserVars

\* main returns
MainReturn ==
    /\ stage = "main_return"
    /\ result' = Returns("done")
    /\ stage' = "exit"
    /\ UNCHANGED <<call, attempt, sent, parsed, trail, fetched, current, match, output, exitCode>>
    /\ UNCHANGED parserVars

\* COMMIT_MESSAGE
CommitMessages ==
    {<<"A", "B", "C", "-", "1", " ", "S", "T", "A", "T", "U", "S", ":", "V", "a", "l", "i", "d", "a", "t", "e", " ", "T", "e", "s", "t", " ", "L", "O", "G", ":", "2", "h", " ", "C", "O", "M", "M", "E", "N", "T", ":", "x", " ", "R", "E", "A", "D", "Y", ":", "Y", "e", "s">>,
     <<"A", "B", "C", "-", "1", " ", "S", "T", "A", "T", "U", "S", ":", "s", "e", "n", "d">>,
     <<"A", "B", "C", "-", "1", " ", "L", "O", "G", ":", "9", "0", "m", "@", "2", "0", "2", "5", "-", "1", "0", "-", "0", "1", " ", "C", "O", "M", "M", "E", "N", "T", ":", "d", "o", "n", "e">>,
     <<"A", "B", "C", "-", "1", " ", "R", "E", "A", "D", "Y", ":", "N">>,
     <<"A", "B", "C", "-", "1">>,
     <<"A", "B", "C", "-", "1", " ", "L", "O", "G", ":", "1", ":", "6", "0", " ", "C", "O", "M", "M", "E", "N", "T", ":", "x">>,
     <<"O", "P", "S", "5", "5", " ", "C", "O", "M", "M", "E", "N", "T", ":", "x">>,
     <<"A", "B", "C", "-", "1", " ", "C", "O", "M", "M", "E", "N", "T", ":", "x", " ", "C", "O", "M", "M", "E", "N", "T", ":", "y">>,
     <<"M", "e", "r", "g", "e", " ", "A", "B", "C", "-", "1", " ", "C", "O", "M", "M", "E", "N", "T", ":", "x">>,
     <<>>,
     <<" ", "\n">> \o <<"A", "B", "C", "-", "1", " ", "C", "O", "M", "M", "E", "N", "T", ":", "x">>,
     <<"A", "B", "C", "-", "1", " ", "C", "O", "M", "M", "E", "N", "T", ":", "x">> \o <<"\r", "\n">> \o <<"S", "T", "A", "T", "U", "S", ":", "B", "u", "i", "l", "d">>,
     <<"m", "e", "r", "g", "e", ":", " ", "A", "B", "C", "-", "1", " ", "C", "O", "M", "M", "E", "N", "T", ":", "x">>,
     <<"\t">> \o <<"M", "E", "R", "G", "E">> \o <<" ", "\n">> \o <<"A", "B", "C", "-", "1", " ", "C", "O", "M", "M", "E", "N", "T", ":", "x">>,
     <<"M", "e", "r", "g", "e", "d", " ", "A", "B", "C", "-", "1", " ", "C", "O", "M", "M", "E", "N", "T", ":", "x">>,
     <<"M", "e", "r", "g", "e", "_", "A", "B", "C", "-", "1", " ", "C", "O", "M", "M", "E", "N", "T", ":", "x">>}

\* the environment of a run
Environments ==
    {e \in [fn : {"main"}, commitMessage : CommitMessages, dryRun : BOOLEAN,
            readyFieldId : BOOLEAN, readyFieldType : {"", "constructor"},
            tempoToken : BOOLEAN, tempoAuthor : BOOLEAN] :
        e.readyFieldType # "" => e.readyFieldId}

InitMain ==
    /\ ParserIdle
    /\ call \in Environments
    /\ stage = "load"
    /\ attempt = 0
    /\ sent = <<>>
    /\ parsed = Null
    /\ trail = <<>>
    /\ fetched = Null
    /\ current = Null
    /\ match = Null
    /\ result = Running
    /\ output = <<>>
    /\ exitCode = 0

NextMain ==
    \/ Load
    \/ MainStart
    \/ CheckMessage
    \/ ExtractIssueKey
    \/ CheckUniqueness
    \/ ExtractTokens
    \/ ParseLog
    \/ ValidateDate
    \/ Assemble
    \/ MainParsed
    \/ MainCatch
    \/ MainReady
    \/ ReadyStart
    \/ ReadyPut
    \/ MainReadyEnd
    \/ MainStatus
    \/ StatusTransitions
    \/ StatusApply
    \/ MainTempo
    \/ TempoCheckArgs
    \/ TempoAttempt
    \/ MainTempoEnd
    \/ MainComment
    \/ MainReturn

SpecMain == InitMain /\ [][NextMain]_vars

\* the calls of updateReadyField: the field id given or not, the field type (one
\* of the three known, none, one unknown, or the name of an inherited property),
\* the Yes label and the value to write
FieldTypes == OwnTypes \cup InheritedKeys \cup {"", "checkbox"}
ReadyCalls ==
    [fn : {"updateReadyField"}, readyFieldId : BOOLEAN, readyFieldType : FieldTypes,
     readyYesValue : {"", "Yes", "Ready"}, readyValueBool : BOOLEAN]

InitReady ==
    /\ ParserIdle
    /\ call \in ReadyCalls
    /\ stage = "ready_args"
    /\ attempt = 0
    /\ sent = <<>>
    /\ parsed = Null
    /\ trail = <<>>
    /\ fetched = Null
    /\ current = Null
    /\ match = Null
    /\ result = Running
    /\ output = <<>>
    /\ exitCode = 0

NextReady ==
    \/ ReadyStart
    \/ ReadyPut

SpecReady == InitReady /\ [][NextReady]_vars

----------------------------------------------------------------------------
(* The runs of main, as the properties speak of them.                      *)

InMain == call.fn = "main"
Exited == InMain /\ stage = "exit"

\* C21: a parse failure stops everything downstream. In a run of main where
\* parseCommitMessage throws, no request is sent to Jira or Tempo and no step is
\* entered, main does nothing more than reject, and the run exits with exit
\* code 1.
C21_ParseFailureStops ==
    (InMain /\ pc = "failed") =>
        /\ sent = <<>>
        /\ trail = <<>>
        /\ stage \in {"parsing", "main_rejected", "exit"}
        /\ stage = "exit" => result.kind = "threw" /\ exitCode = 1

C21_Witness ==
    /\ Exited
    /\ pc = "failed" /\ err = ErrLogMinutes
    /\ tok["COMMENT"] # Null
    /\ sent = <<>>
    /\ exitCode = 1

\* the requests that change something: every PUT and every POST
Changing == SelectSeq(sent, LAMBDA q : q.method \in {"PUT", "POST"})

\* the transitions applied: the indexes of the POSTs to /transitions that were ok
Applied ==
    {i \in 1..Len(sent) :
        sent[i].method = "POST" /\ sent[i].path = "/issue/transitions" /\ Is2xx(sent[i].res)}

\* the POST at index i follows the GET of the transitions, which follows the GET
\* of the issue: the status read, and the target of the transition posted
StatusBefore(i) == sent[i - 2].res[1].body.status
TargetPosted(i) ==
    LET ts == sent[i - 1].res[1].body
    IN  ts[CHOOSE k \in 1..Len(ts) : ts[k].id = sent[i].body].to

\* C28: the PR trigger. create_pr is written 'no' before main runs, and 'yes' is
\* written at most once and only in a run with DRY_RUN false in which a transition
\* was applied, from the current status 'Build' to the target status 'Validate
\* Test' (both trimmed, without regard to case); in a run whose parse failed it
\* is never written.
C28_PrTrigger ==
    InMain =>
        /\ stage # "load" => output # <<>> /\ output[1] = "no"
        /\ output \in {<<>>, <<"no">>, <<"no", "yes">>}
        /\ output = <<"no", "yes">> =>
              /\ ~call.dryRun
              /\ pc = "done"
              /\ \E i \in Applied :
                    /\ i >= 3
                    /\ SameStatus(StatusBefore(i), <<"B", "u", "i", "l", "d">>)
                    /\ SameStatus(TargetPosted(i), <<"V", "a", "l", "i", "d", "a", "t", "e", " ", "T", "e", "s", "t">>)

C28_Witness ==
    /\ Exited
    /\ output = <<"no", "yes">>
    /\ call.commitMessage = <<"A", "B", "C", "-", "1", " ", "S", "T", "A", "T", "U", "S", ":", "s", "e", "n", "d">>
    /\ current[1].status = <<" ", "B", "U", "I", "L", "D", " ">>
    /\ match = Some(T_Validate)

\* the steps whose directive is in the record, in the order of main
ExpectedTrail(p) ==
    (IF p.ready # Null THEN <<"ready">> ELSE <<>>)
    \o (IF p.status # Null /\ p.status[1] # <<>> THEN <<"status">> ELSE <<>>)
    \o (IF p.logHours # Null THEN <<"tempo">> ELSE <<>>)
    \o (IF p.comment # Null /\ p.comment[1] # <<>> THEN <<"comment">> ELSE <<>>)

IsPrefix(s, t) == Len(s) <= Len(t) /\ s = SubSeq(t, 1, Len(s))

\* the step a request is of, as a rank; the GET of the issue is of the status
\* step or of the Tempo step
RankLow(q) ==
    CASE q.method = "PUT" -> 1
      [] q.path = "/issue/transitions" -> 2
      [] q.method = "GET" /\ q.path = "/issue?fields=status" -> 2
      [] q.path \in {"/worklogs", "/work-attributes"} -> 3
      [] q.path = "/issue/comment" -> 4
RankHigh(q) == IF q.method = "GET" /\ q.path = "/issue?fields=status" THEN 3 ELSE RankLow(q)
StepNames == <<"ready", "status", "tempo", "comment">>

\* C29: action order and failure isolation in main. After a successful parse the
\* steps entered are those whose directive is in the record (ready not null,
\* status not empty, logHours not null, comment not empty), in the order Ready,
\* status, Tempo, comment; the requests sent are of steps entered and in that
\* order; and whatever failed on the way, main reaches its end with every such
\* step entered, returns normally and sets no failure exit code.
C29_OrderAndIsolation ==
    (InMain /\ parsed # Null) =>
        /\ IsPrefix(trail, ExpectedTrail(parsed[1]))
        /\ \A i \in 1..Len(sent) :
              /\ \E k \in 1..Len(trail) :
                    trail[k] \in {StepNames[RankLow(sent[i])], StepNames[RankHigh(sent[i])]}
              /\ \A j \in 1..(i - 1) : RankLow(sent[j]) <= RankHigh(sent[i])
        /\ exitCode = 0
        /\ stage = "exit" =>
              /\ trail = ExpectedTrail(parsed[1])
              /\ result = Returns("done")

C29_Witness ==
    /\ Exited
    /\ trail = <<"ready", "status", "tempo", "comment">>
    /\ Len(sent) >= 4
    /\ sent[1].method = "PUT" /\ sent[1].res = Null
    /\ \E i \in 1..Len(sent) :
          sent[i].path = "/issue?fields=status" /\ sent[i].res = Some(Response(404, <<>>))
    /\ sent[Len(sent) - 1].path = "/worklogs" /\ IsOther4xx(sent[Len(sent) - 1].res)
    /\ sent[Len(sent)].path = "/issue/comment" /\ Is2xx(sent[Len(sent)].res)
    /\ Faults(sent) = 3
    /\ result = Returns("done")

\* C30: a dry run changes nothing. In a run of main with DRY_RUN true no PUT and
\* no POST is sent to Jira or Tempo.
C30_DryRunChangesNothing ==
    (InMain /\ call.dryRun) => Changing = <<>>

\* the first line of COMMIT_MESSAGE, trimmed: what is before the first line
\* break, without the white space at its ends
TrimmedFirstLine == firstLineOf(call.commitMessage)

\* the line starts with the word Merge, in any case: its first five characters
\* spell it, and the line ends there or goes on with a character that does not
\* continue a word (a letter, a digit or an underscore would)
WordChars ==
    {"a", "b", "c", "d", "e", "f", "g", "h", "i", "j", "k", "l", "m", "n", "o", "p", "q", "r",
     "s", "t", "u", "v", "w", "x", "y", "z", "A", "B", "C", "D", "E", "F", "G", "H", "I", "J",
     "K", "L", "M", "N", "O", "P", "Q", "R", "S", "T", "U", "V", "W", "X", "Y", "Z", "0", "1",
     "2", "3", "4", "5", "6", "7", "8", "9", "_"}
StartsWithWordMerge(line) ==
    /\ Len(line) >= 5
    /\ line[1] \in {"m", "M"} /\ line[2] \in {"e", "E"} /\ line[3] \in {"r", "R"}
    /\ line[4] \in {"g", "G"} /\ line[5] \in {"e", "E"}
    /\ Len(line) > 5 => line[6] \notin WordChars

\* parseCommitMessage was never called: the parser is as it was before the run
ParserUntouched == pc = "idle" /\ message = MessageOf(PlainInput(<<>>)) /\ firstLine = <<>>

\* C31: merge commits are skipped entirely. In a run of main whose trimmed first
\* line starts with the word Merge, in any case, parseCommitMessage is never
\* called and no request is ever sent, and main returns normally with no failure
\* exit code; in a run whose trimmed first line is empty, parseCommitMessage is
\* never called either, no request is sent, and main fails with the error
\* 'Empty COMMIT_MESSAGE.' and exit code 1.
C31_MergeSkipped ==
    InMain =>
        /\ StartsWithWordMerge(TrimmedFirstLine) =>
              /\ ParserUntouched
              /\ sent = <<>> /\ trail = <<>>
              /\ exitCode = 0
              /\ stage \in {"load", "main_start", "exit"}
              /\ stage = "exit" => result = Returns("merge")
        /\ TrimmedFirstLine = <<>> =>
              /\ ParserUntouched
              /\ sent = <<>> /\ trail = <<>>
              /\ stage \in {"load", "main_start", "main_rejected", "exit"}
              /\ stage \in {"main_rejected", "exit"} => result = Throws("Empty COMMIT_MESSAGE.")
              /\ stage = "exit" => exitCode = 1

C31_Witness ==
    /\ Exited
    /\ call.commitMessage = <<"m", "e", "r", "g", "e", ":", " ", "A", "B", "C", "-", "1", " ", "C", "O", "M", "M", "E", "N", "T", ":", "x">>
    /\ ~call.dryRun /\ call.readyFieldId /\ call.tempoToken
    /\ result = Returns("merge")
    /\ ParserUntouched
    /\ sent = <<>>

----------------------------------------------------------------------------
(* The requests of one call of updateReadyField.                           *)

InReady == call.fn = "updateReadyField"

\* C32: Ready-field update attempts. A call of updateReadyField sends no request
\* when the Ready field id is not configured; otherwise it sends at most 3 PUTs,
\* their bodies all different, the body of the configured field type first when
\* that type is one of string, option and array; no PUT follows one that
\* succeeded; and the call never throws, even when every PUT failed.
C32_ReadyAttempts ==
    InReady =>
        /\ ~call.readyFieldId => sent = <<>>
        /\ Len(sent) <= 3
        /\ \A i, j \in 1..Len(sent) : i # j => sent[i].body # sent[j].body
        /\ (sent # <<>> /\ call.readyFieldType \in {"string", "option", "array"}) =>
              sent[1].body.shape = call.readyFieldType
        /\ \A i \in 1..(Len(sent) - 1) : ~Is2xx(sent[i].res)
        /\ result.kind # "threw"

====
